---- MODULE Spec2Model ----
(***************************************************************************)
(* A model of golf-rules-rag: the indexing run of the PDF processor        *)
(* (internal/processor, build tag v2), and the query routing of the golfqa *)
(* command.                                                                *)
(*                                                                         *)
(* Text is modelled by what the code reads from it: a run of text is a     *)
(* record of its byte length and of the rule references the                *)
(* cross-reference pattern finds in it, in order of occurrence.            *)
(***************************************************************************)
EXTENDS Integers, Sequences, FiniteSets, TLC

VARIABLES
    pc,               \* position of the run in ProcessPDF / processQuery
    ChunkSize,        \* PDFProcessor.ChunkSize
    ruleHierarchy,    \* ProcessPDF: the rule hierarchy map
    definitionsText,  \* ProcessPDF: the definitions region
    indexText,        \* ProcessPDF: the index region
    definitionChunks, \* ProcessPDF: the chunks of processDefinitions
    indexEntries,     \* ProcessPDF: the entries of processIndex
    chunks,           \* ProcessPDF: the chunk list
    document,         \* extractRulesHierarchy: the pages of the rules text
    currentPageNum,   \* extractRulesHierarchy: the page being scanned
    query,            \* processQuery: the question, the rule filter, the limit
    store,            \* the rows of text_chunks, nearest to the query first
    search,           \* processQuery: the storage calls made, in order
    response,         \* processQuery: what is returned to the caller
    MaxConcurrent,    \* OllamaEmbedder.MaxConcurrent
    batch,            \* EmbedBatchWithProgress: the chunks and their goroutines
    nextChunk,        \* EmbedBatchWithProgress: the index the launch loop is at
    errChan,          \* EmbedBatchWithProgress: the errors sent, in order
    ctxDone,          \* the context of the batch is cancelled or timed out
    batchResult,      \* what EmbedBatchWithProgress returned
    pdfText,          \* ProcessPDF: the text extracted from the PDF
    processedText,    \* ProcessPDF: the text as preprocessing has it so far
    rulesText,        \* ProcessPDF: the rules region
    openRule          \* extractHierarchy: currentRule, kept from page to page

vars == <<pc, ChunkSize, ruleHierarchy, definitionsText, indexText,
          definitionChunks, indexEntries, chunks, document,
          currentPageNum, query, store, search, response,
          MaxConcurrent, batch, nextChunk, errChan, ctxDone, batchResult,
          pdfText, processedText, rulesText, openRule>>

indexVars == <<pc, ChunkSize, ruleHierarchy, definitionsText, indexText,
               definitionChunks, indexEntries, chunks>>

extractVars == <<document, currentPageNum, openRule>>

queryVars == <<query, store, search, response>>

embedVars == <<MaxConcurrent, batch, nextChunk, errChan, ctxDone, batchResult>>

textVars == <<pdfText, processedText, rulesText>>

----------------------------------------------------------------------------
(* Program constants.                                                      *)

MAX_CHUNK_SIZE == 2000
MIN_CHUNK_SIZE == 100

(* Bounds of the model.                                                    *)

MaxParas == 3      \* paragraphs in a section's content
MaxDocLines == 4   \* lines of the rules text
MaxPages == 2      \* pages of the rules text
MaxStore == 3      \* rows in text_chunks

----------------------------------------------------------------------------
(* Strings.  A string is a sequence of pieces; a piece is either a run of   *)
(* text that holds no paragraph separator, or the separator "\n\n".         *)

Text(n, refs) == [len |-> n, refs |-> refs, sep |-> FALSE]

ParagraphSeparator == [len |-> 2, refs |-> <<>>, sep |-> TRUE]

EmptyString == <<>>

RECURSIVE StrLen(_)
\* len(s)
StrLen(s) == IF s = <<>> THEN 0 ELSE Head(s).len + StrLen(Tail(s))

\* a builder that keeps only what was written last
WriteStringOver(b, t) == t

\* strings.Builder.WriteString(t)
WriteString(b, t) == b \o t

RECURSIVE SplitFrom(_, _, _, _)
SplitFrom(s, i, cur, out) ==
    IF i > Len(s) THEN Append(out, cur)
    ELSE IF s[i].sep THEN SplitFrom(s, i + 1, <<>>, Append(out, cur))
         ELSE SplitFrom(s, i + 1, Append(cur, s[i]), out)

\* strings.Split(s, "\n\n"): the empty string gives one empty paragraph
SplitParagraphs(s) == SplitFrom(s, 1, <<>>, <<>>)

RECURSIVE JoinParagraphs(_)
\* strings.Join(paragraphs, "\n\n")
JoinParagraphs(ps) ==
    IF ps = <<>> THEN <<>>
    ELSE IF Len(ps) = 1 THEN ps[1]
         ELSE ps[1] \o <<ParagraphSeparator>> \o JoinParagraphs(Tail(ps))

getLastParagraph(text) ==
    LET paragraphs == SplitParagraphs(text)
    IN  IF Len(paragraphs) > 0 THEN paragraphs[Len(paragraphs)] ELSE EmptyString

RECURSIVE AllRefs(_)
\* FindAllString of the rule-reference pattern over a string
AllRefs(s) == IF s = <<>> THEN <<>> ELSE Head(s).refs \o AllRefs(Tail(s))

Range(f) == {f[i] : i \in DOMAIN f}

NoDuplicates(s) == \A i, j \in DOMAIN s : i # j => s[i] # s[j]

\* the orders in which a range loop may visit the keys of a Go map
MapOrders(S) == {o \in [1..Cardinality(S) -> S] : Range(o) = S}

----------------------------------------------------------------------------
(* The chunk builder.                                                      *)

NewPDFProcessor(chunkSize) == IF chunkSize <= 0 THEN MAX_CHUNK_SIZE ELSE chunkSize

TextChunk(id, content, meta, indexTerms) ==
    [ID |-> id, Content |-> content, Metadata |-> meta,
     CrossReferences |-> <<>>, IndexTerms |-> indexTerms]

Metadata(page, section, title, hierarchy, subsection, subsecTitle, chunkType, parentRule) ==
    [PageNumber |-> page, Section |-> section, Title |-> title,
     Hierarchy |-> hierarchy, Subsection |-> subsection,
     SubsecTitle |-> subsecTitle, ChunkType |-> chunkType,
     ParentRule |-> parentRule]

\* the flush condition of splitSectionIntoChunks without its minimum
ShouldFlushNoMinimum(bufLen, paraLen, size) == bufLen + paraLen > size

\* the flush condition of splitSectionIntoChunks
ShouldFlush(bufLen, paraLen, size) ==
    bufLen + paraLen > size /\ bufLen > MIN_CHUNK_SIZE

\* the builder after a flush, reset and not seeded
NoOverlap(out, paragraphs) == EmptyString

\* the builder after a flush: reset, then seeded with the overlap paragraph
SeedOverlap(out, paragraphs) ==
    IF Len(out) > 0 /\ Len(paragraphs) > 1
    THEN LET lastPara == getLastParagraph(out[Len(out)].Content)
         IN  IF StrLen(lastPara) > 0
             THEN WriteString(WriteString(EmptyString, lastPara),
                              <<ParagraphSeparator>>)
             ELSE EmptyString
    ELSE EmptyString

RECURSIVE SplitLoop(_, _, _, _, _, _, _, _)
\* the paragraph loop of splitSectionIntoChunks and its final flush
SplitLoop(paragraphs, i, currentChunk, out, startID, meta, indexTerms, size) ==
    IF i > Len(paragraphs)
    THEN IF StrLen(currentChunk) > 0
         THEN Append(out, TextChunk(startID + Len(out), currentChunk, meta, indexTerms))
         ELSE out
    ELSE LET para == paragraphs[i]
             flush == ShouldFlush(StrLen(currentChunk), StrLen(para), size)
             out1 == IF flush
                     THEN Append(out, TextChunk(startID + Len(out), currentChunk,
                                                meta, indexTerms))
                     ELSE out
             b1 == IF flush THEN SeedOverlap(out1, paragraphs) ELSE currentChunk
             b2 == IF StrLen(b1) > 0
                   THEN WriteString(b1, <<ParagraphSeparator>>)
                   ELSE b1
         IN  SplitLoop(paragraphs, i + 1, WriteString(b2, para), out1,
                       startID, meta, indexTerms, size)

splitSectionIntoChunks(content, startID, ruleNum, ruleTitle, sectionNum, sectionTitle, path, pageNum, indexTerms, size) ==
    SplitLoop(SplitParagraphs(content), 1, EmptyString, <<>>, startID,
              Metadata(pageNum, ruleNum, ruleTitle, path, sectionNum,
                       sectionTitle, "section", ruleNum),
              indexTerms, size)

\* fmt.Sprintf("%s – %s\n", ruleNum, rule.Title): the dash is three bytes
ruleIntro(ruleNum, title) == <<Text(Len(ruleNum) + 5 + Len(title) + 1, <<ruleNum>>)>>

RuleChunk(id, ruleNum, rule) ==
    TextChunk(id, ruleIntro(ruleNum, rule.Title),
              Metadata(rule.PageNumber, ruleNum, rule.Title, rule.Path,
                       "", "", "rule", ""),
              rule.IndexTerms)

SectionChunk(id, ruleNum, rule, sectionNum, section) ==
    TextChunk(id, section.Content,
              Metadata(section.PageNumber, ruleNum, rule.Title, section.Path,
                       sectionNum, section.Title, "section", ruleNum),
              rule.IndexTerms)

SubsectionChunk(id, ruleNum, rule, subsectionNum, subsection) ==
    TextChunk(id, subsection.Content,
              Metadata(subsection.PageNumber, ruleNum, rule.Title, subsection.Path,
                       subsectionNum, subsection.Title, "subsection", ruleNum),
              rule.IndexTerms)

\* chunkID after a split section: chunkID += len(chunks), the whole list
NextIDAfterSplit(chunkID, all, split) == chunkID + Len(all)

RECURSIVE SubsectionLoop(_, _, _, _, _, _)
\* the range loop over section.Subsections, visiting in `order`
SubsectionLoop(order, k, acc, ruleNum, rule, section) ==
    IF k > Len(order) THEN acc
    ELSE SubsectionLoop(order, k + 1,
             [chunks |-> Append(acc.chunks,
                                SubsectionChunk(acc.chunkID, ruleNum, rule, order[k],
                                                section.Subsections[order[k]])),
              chunkID |-> acc.chunkID + 1],
             ruleNum, rule, section)

\* the body of the range loop over rule.Sections, for one section
SectionStep(acc, ruleNum, rule, sectionNum, section, size) ==
    IF StrLen(section.Content) > size
    THEN LET split == splitSectionIntoChunks(section.Content, acc.chunkID, ruleNum,
                          rule.Title, sectionNum, section.Title, section.Path,
                          section.PageNumber, rule.IndexTerms, size)
             all == acc.chunks \o split
         IN  [chunks |-> all, chunkID |-> NextIDAfterSplit(acc.chunkID, all, split)]
    ELSE [chunks |-> Append(acc.chunks,
                            SectionChunk(acc.chunkID, ruleNum, rule, sectionNum, section)),
          chunkID |-> acc.chunkID + 1]

RECURSIVE SectionLoop(_, _, _, _, _, _, _)
\* the range loop over rule.Sections, visiting in `order.secs[ruleNum]`
SectionLoop(order, j, acc, ruleNum, rule, size, iter) ==
    IF j > Len(order) THEN acc
    ELSE LET section == rule.Sections[order[j]]
             a1 == SectionStep(acc, ruleNum, rule, order[j], section, size)
             a2 == SubsectionLoop(iter.subs[<<ruleNum, order[j]>>], 1, a1,
                                  ruleNum, rule, section)
         IN  SectionLoop(order, j + 1, a2, ruleNum, rule, size, iter)

RECURSIVE RuleLoop(_, _, _, _, _)
\* the range loop over ruleHierarchy, visiting in `iter.rules`
RuleLoop(hier, i, acc, size, iter) ==
    IF i > Len(iter.rules) THEN acc
    ELSE LET ruleNum == iter.rules[i]
             rule == hier[ruleNum]
             a1 == [chunks |-> Append(acc.chunks, RuleChunk(acc.chunkID, ruleNum, rule)),
                    chunkID |-> acc.chunkID + 1]
             a2 == SectionLoop(iter.secs[ruleNum], 1, a1, ruleNum, rule, size, iter)
         IN  RuleLoop(hier, i + 1, a2, size, iter)

\* createRuleBasedChunks, its three map loops visiting in the orders of `iter`
createRuleBasedChunks(hier, size, iter) ==
    RuleLoop(hier, 1, [chunks |-> <<>>, chunkID |-> 1], size, iter).chunks

SectionKeys(hier) == {<<r, s>> : r \in DOMAIN hier, s \in UNION {DOMAIN hier[q].Sections : q \in DOMAIN hier}}

\* the visiting orders the three range loops of createRuleBasedChunks may take
IterationOrders(hier) ==
    LET pairs == {p \in SectionKeys(hier) : p[2] \in DOMAIN hier[p[1]].Sections}
        secOrders == UNION {MapOrders(DOMAIN hier[r].Sections) : r \in DOMAIN hier}
        subOrders == UNION {MapOrders(DOMAIN hier[p[1]].Sections[p[2]].Subsections) : p \in pairs}
    IN  {[rules |-> ro, secs |-> so, subs |-> uo] :
            ro \in MapOrders(DOMAIN hier),
            so \in {f \in [DOMAIN hier -> secOrders] :
                      \A r \in DOMAIN hier : f[r] \in MapOrders(DOMAIN hier[r].Sections)},
            uo \in {f \in [pairs -> subOrders] :
                      \A p \in pairs :
                         f[p] \in MapOrders(DOMAIN hier[p[1]].Sections[p[2]].Subsections)}}
----------------------------------------------------------------------------
(* Definitions and index.  The definitions region and the index region are  *)
(* sequences of lines, each ending in a newline.  A definitions line is a   *)
(* "term" line when it holds only letters, spaces and hyphens after a       *)
(* capital, and a "body" line otherwise; an index line is a "words" line    *)
(* (letters, spaces, hyphens, commas), an "entry" line (words, then         *)
(* numbers) or an "other" line.                                             *)

\* the lines at which defRe matches: its character class holds \s, so a
\* match runs over consecutive term lines and starts at the first of them
DefinitionStarts(text) ==
    {i \in DOMAIN text :
        text[i].kind = "term" /\ (i = 1 \/ text[i - 1].kind # "term")}

RECURSIVE JoinLines(_, _, _)
\* the text of lines i..j without the last newline
JoinLines(text, i, j) ==
    IF i > j THEN ""
    ELSE IF i = j THEN text[i].words
         ELSE text[i].words \o "\n" \o JoinLines(text, i + 1, j)

\* the last line of the match that starts at line i
MatchEnd(text, i, kind) ==
    CHOOSE j \in i..Len(text) :
        /\ \A k \in i..j : text[k].kind = kind
        /\ (j = Len(text) \/ text[j + 1].kind # kind)

RECURSIVE DefinitionLoop(_, _, _)
\* the loop of processDefinitions over defMatches
DefinitionLoop(text, i, out) ==
    IF i > Len(text) THEN out
    ELSE IF i \notin DefinitionStarts(text) THEN DefinitionLoop(text, i + 1, out)
    ELSE LET later == {j \in DefinitionStarts(text) : j > i}
             defEnd == IF later = {} THEN Len(text)
                       ELSE (CHOOSE j \in later : \A k \in later : j <= k) - 1
             defTerm == JoinLines(text, i, MatchEnd(text, i, "term"))
             chunkID == Len(out) + 1
         IN  DefinitionLoop(text, i + 1,
                 Append(out,
                        TextChunk(chunkID,
                                  [k \in 1..(defEnd - i + 1) |-> text[i + k - 1].piece],
                                  Metadata(0, "Definitions", defTerm,
                                           "Definitions > " \o defTerm,
                                           "", "", "definition", ""),
                                  <<>>)))

processDefinitions(text) == IF text = <<>> THEN <<>> ELSE DefinitionLoop(text, 1, <<>>)

\* the lines at which indexRe matches: a run of words lines, then an entry line
IndexStarts(text) ==
    {i \in DOMAIN text :
        /\ text[i].kind \in {"words", "entry"}
        /\ (i = 1 \/ text[i - 1].kind # "words")
        /\ \E j \in i..Len(text) :
              text[j].kind = "entry" /\ \A k \in i..(j - 1) : text[k].kind = "words"}

RECURSIVE IndexLoop(_, _, _)
\* the loop of processIndex over indexMatches
IndexLoop(text, i, out) ==
    IF i > Len(text) THEN out
    ELSE IF i \notin IndexStarts(text) THEN IndexLoop(text, i + 1, out)
    ELSE LET j == CHOOSE e \in i..Len(text) :
                     text[e].kind = "entry" /\ \A k \in i..(e - 1) : text[k].kind = "words"
         IN  IndexLoop(text, j + 1,
                 Append(out, [Term |-> JoinLines(text, i, j),
                              RuleReferences |->
                                  [n \in DOMAIN text[j].nums |-> "Rule " \o text[j].nums[n]]]))

processIndex(text) == IF text = <<>> THEN <<>> ELSE IndexLoop(text, 1, <<>>)

RECURSIVE TermsOfEntry(_, _, _)
\* the inner loop of applyIndexTermsToRules: one append per reference to ruleRef
TermsOfEntry(entry, ruleRef, n) ==
    IF n > Len(entry.RuleReferences) THEN <<>>
    ELSE (IF entry.RuleReferences[n] = ruleRef THEN <<entry.Term>> ELSE <<>>)
         \o TermsOfEntry(entry, ruleRef, n + 1)

RECURSIVE RuleTerms(_, _)
\* ruleTerms[ruleRef] as the first loop of applyIndexTermsToRules builds it
RuleTerms(entries, ruleRef) ==
    IF entries = <<>> THEN <<>>
    ELSE TermsOfEntry(Head(entries), ruleRef, 1) \o RuleTerms(Tail(entries), ruleRef)

applyIndexTermsToRules(hier, entries) ==
    [ruleNum \in DOMAIN hier |->
        IF RuleTerms(entries, ruleNum) # <<>>
        THEN [hier[ruleNum] EXCEPT !.IndexTerms = RuleTerms(entries, ruleNum)]
        ELSE hier[ruleNum]]

\* the references of a chunk not yet listed on it
UnseenReferenceSet(chunk) == Range(AllRefs(chunk.Content)) \ Range(chunk.CrossReferences)

\* refMap of extractCrossReferences: the distinct matches in the chunk's content
ReferenceSet(chunk) == Range(AllRefs(chunk.Content))

RECURSIVE extractCrossReferences(_)
\* the chunk lists extractCrossReferences may leave: each chunk's references
\* are its refMap in the order the range loop over that map takes
extractCrossReferences(cs) ==
    IF cs = <<>> THEN {<<>>}
    ELSE {<<[Head(cs) EXCEPT !.CrossReferences = refs]>> \o rest :
             refs \in MapOrders(ReferenceSet(Head(cs))),
             rest \in extractCrossReferences(Tail(cs))}
----------------------------------------------------------------------------
(* The hierarchy extractor.  A page of the rules text is a sequence of      *)
(* lines, each ending in a newline; a line is a "rule" line when            *)
(* mainRuleRe matches it, a "section" line when sectionRe does, a           *)
(* "subsection" line when subsectionRe does, and a "text" line otherwise.   *)

\* FindAllStringSubmatchIndex of a line-anchored pattern: the matching
\* lines of the text, in order
MatchStarts(text, kind) ==
    LET hits == {i \in DOMAIN text : text[i].kind = kind}
    IN  CHOOSE o \in MapOrders(hits) : \A i, j \in DOMAIN o : i < j => o[i] < o[j]

\* text[starts[i] : starts[i+1]], or to the end of the text for the last match
MatchSpan(text, starts, i) ==
    SubSeq(text, starts[i], IF i < Len(starts) THEN starts[i + 1] - 1 ELSE Len(text))

\* a span of lines as a string
SpanString(text) == [i \in DOMAIN text |-> text[i].piece]

\* the path of a subsection without its section
SubsectionPathNoSection(currentRule, currentSection, subsectionNum) ==
    currentRule \o " > " \o subsectionNum

\* fmt.Sprintf("%s > %s > %s", currentRule, currentSection, subsectionNum)
SubsectionPath(currentRule, currentSection, subsectionNum) ==
    currentRule \o " > " \o currentSection \o " > " \o subsectionNum

RECURSIVE SubsectionMatchLoop(_, _, _, _, _, _, _)
\* the loop over subsectionMatches: the subsections map of the current section
SubsectionMatchLoop(sectionText, starts, k, subs, currentRule, currentSection, page) ==
    IF k > Len(starts) THEN subs
    ELSE LET line == sectionText[starts[k]]
             subsection == [Number |-> line.num, Title |-> line.title,
                            Content |-> SpanString(MatchSpan(sectionText, starts, k)),
                            PageNumber |-> page,
                            Path |-> SubsectionPath(currentRule, currentSection, line.num)]
             subs1 == [t \in DOMAIN subs \cup {line.num} |->
                          IF t = line.num THEN subsection ELSE subs[t]]
         IN  SubsectionMatchLoop(sectionText, starts, k + 1, subs1,
                                 currentRule, currentSection, page)

RECURSIVE SectionMatchLoop(_, _, _, _, _, _)
\* the loop over sectionMatches: the sections map of the current rule
SectionMatchLoop(ruleText, starts, j, sections, currentRule, page) ==
    IF j > Len(starts) THEN sections
    ELSE LET line == ruleText[starts[j]]
             sectionText == MatchSpan(ruleText, starts, j)
             section == [Number |-> line.num, Title |-> line.title,
                         PageNumber |-> page,
                         Subsections |->
                             SubsectionMatchLoop(sectionText,
                                 MatchStarts(sectionText, "subsection"), 1, <<>>,
                                 currentRule, line.num, page),
                         Content |-> SpanString(sectionText),
                         Path |-> currentRule \o " > " \o line.num]
             sections1 == [s \in DOMAIN sections \cup {line.num} |->
                              IF s = line.num THEN section ELSE sections[s]]
         IN  SectionMatchLoop(ruleText, starts, j + 1, sections1, currentRule, page)

RECURSIVE RuleMatchLoop(_, _, _, _, _)
\* the loop over mainRuleMatches of one page
RuleMatchLoop(page, starts, i, hier, pageNum) ==
    IF i > Len(starts) THEN hier
    ELSE LET line == page[starts[i]]
             ruleText == MatchSpan(page, starts, i)
             rule == [RuleNumber |-> line.num, Title |-> line.title,
                      PageNumber |-> pageNum,
                      Sections |->
                          SectionMatchLoop(ruleText, MatchStarts(ruleText, "section"),
                                           1, <<>>, line.num, pageNum),
                      Path |-> line.num, IndexTerms |-> <<>>]
             hier1 == [r \in DOMAIN hier \cup {line.num} |->
                          IF r = line.num THEN rule ELSE hier[r]]
         IN  RuleMatchLoop(page, starts, i + 1, hier1, pageNum)

\* the body of the page loop of extractRulesHierarchy
ExtractFromPage(hier, page, pageNum) ==
    RuleMatchLoop(page, MatchStarts(page, "rule"), 1, hier, pageNum)

----------------------------------------------------------------------------
(* The inputs of an indexing run: the rule hierarchy, the definitions       *)
(* region, the index region and the -chunk-size flag.                       *)

RuleNumbers == {"Rule 1", "Rule 2"}

RuleTitles == [r \in RuleNumbers |-> IF r = "Rule 1" THEN "The Game" ELSE "The Course"]

SectionNumbers == [r \in RuleNumbers |-> IF r = "Rule 1" THEN {"1.1", "1.2"} ELSE {"2.1"}]

SubsectionNumbers == [s \in {"1.1", "1.2", "2.1"} |-> IF s = "1.1" THEN {"1.1a", "1.1b"} ELSE {}]

\* every key of the hierarchy, in ascending byte order
KeysAscending == <<"1.1", "1.1a", "1.1b", "1.2", "2.1", "Rule 1", "Rule 2">>

KeyRank(k) == CHOOSE i \in DOMAIN KeysAscending : KeysAscending[i] = k

Ascending(S) == CHOOSE o \in MapOrders(S) : \A i, j \in DOMAIN o : i < j => KeyRank(o[i]) < KeyRank(o[j])

\* the paragraphs that section contents are made of
ParagraphPool ==
    {<<>>,
     <<Text(60, <<>>)>>,
     <<Text(100, <<"Rule 2">>)>>,
     <<Text(150, <<"Rule 1.2a", "Rule 2", "Rule 1.2a">>)>>}

SectionContents ==
    {JoinParagraphs(ps) : ps \in UNION {[1..n -> ParagraphPool] : n \in 1..MaxParas}}

ChunkSizeFlags == {0, 120, 160}

RuleSubsection(ruleNum, sectionNum, num, content) ==
    [Number |-> num, Title |-> "Sub", Content |-> content, PageNumber |-> 1,
     Path |-> ruleNum \o " > " \o sectionNum \o " > " \o num]

RuleSection(ruleNum, num, content, subs) ==
    [Number |-> num, Title |-> "Sec", PageNumber |-> 1,
     Subsections |-> [t \in subs |-> RuleSubsection(ruleNum, num, t,
                                        <<Text(40, <<"Rule 2">>)>>)],
     Content |-> content, Path |-> ruleNum \o " > " \o num]

GolfRuleHierarchy(ruleNum, sections) ==
    [RuleNumber |-> ruleNum, Title |-> RuleTitles[ruleNum], PageNumber |-> 1,
     Sections |-> sections, Path |-> ruleNum, IndexTerms |-> <<>>]

\* one rule with one section of any content
ContentHierarchies ==
    {[r \in {"Rule 1"} |->
         GolfRuleHierarchy(r, [s \in {"1.1"} |-> RuleSection(r, s, c, {})])] :
     c \in SectionContents}

ShortContent == JoinParagraphs(<<<<Text(60, <<>>)>>, <<Text(100, <<"Rule 2">>)>>>>)

\* any rules, sections and subsections, of one short content
ShapeHierarchies ==
    {[r \in rs |->
         GolfRuleHierarchy(r,
             [s \in ss \cap SectionNumbers[r] |->
                 RuleSection(r, s, ShortContent, ts \cap SubsectionNumbers[s])])] :
     rs \in SUBSET RuleNumbers, ss \in SUBSET {"1.1", "1.2", "2.1"},
     ts \in SUBSET {"1.1a", "1.1b"}}

DefinitionLine(kind, words, n, refs) ==
    [kind |-> kind, words |-> words, piece |-> Text(n, refs)]

DefinitionRegions ==
    {<<>>,
     <<DefinitionLine("body", "XI. Definitions", 16, <<>>),
       DefinitionLine("term", "Advice", 7, <<>>),
       DefinitionLine("body", "Any comment, see Rule 2.", 25, <<"Rule 2">>),
       DefinitionLine("term", "Ball", 5, <<>>),
       DefinitionLine("term", "Moved", 6, <<>>),
       DefinitionLine("body", "See Rule 1.2a and Rule 1.2a.", 29, <<"Rule 1.2a", "Rule 1.2a">>)>>}

IndexLine(kind, words, nums) == [kind |-> kind, words |-> words, nums |-> nums]

IndexRegions ==
    {<<>>,
     <<IndexLine("words", "Index", <<>>), IndexLine("entry", "ball", <<"1">>),
       IndexLine("entry", "club", <<"2">>)>>,
     <<IndexLine("words", "Index", <<>>), IndexLine("entry", "ball", <<"1", "1">>)>>,
     <<IndexLine("other", "Index:", <<>>), IndexLine("entry", "ball", <<"1">>),
       IndexLine("entry", "club", <<"1", "2">>), IndexLine("entry", "ball", <<"1">>)>>}

IndexingInputs ==
    {[hier |-> h, defs |-> d, index |-> <<>>, flag |-> f] :
        h \in ContentHierarchies, d \in DefinitionRegions, f \in ChunkSizeFlags}
    \cup
    {[hier |-> h, defs |-> d, index |-> x, flag |-> 160] :
        h \in ShapeHierarchies, d \in DefinitionRegions, x \in IndexRegions}
----------------------------------------------------------------------------
(* The indexing run: ProcessPDF from the three regions on.                  *)

Idle == <<>>

\* no batch embedding is under way
NoBatch ==
    /\ MaxConcurrent = 0
    /\ batch = <<>>
    /\ nextChunk = 0
    /\ errChan = <<>>
    /\ ctxDone = FALSE
    /\ batchResult = Idle
    /\ openRule = ""
    /\ pdfText = <<>>
    /\ processedText = <<>>
    /\ rulesText = <<>>

\* the same, for a run that starts at the text of the PDF
NoBatchYet ==
    /\ MaxConcurrent = 0
    /\ batch = <<>>
    /\ nextChunk = 0
    /\ errChan = <<>>
    /\ ctxDone = FALSE
    /\ batchResult = Idle
    /\ openRule = ""

InitIndexing ==
    /\ NoBatch
    /\ \E in \in IndexingInputs :
          /\ ChunkSize = NewPDFProcessor(in.flag)
          /\ ruleHierarchy = in.hier
          /\ definitionsText = in.defs
          /\ indexText = in.index
    /\ pc = "definitions"
    /\ definitionChunks = <<>>
    /\ indexEntries = <<>>
    /\ chunks = <<>>
    /\ document = Idle
    /\ currentPageNum = 0
    /\ query = Idle
    /\ store = Idle
    /\ search = Idle
    /\ response = Idle

\* definitionChunks := p.processDefinitions(definitionsText)
ProcessDefinitions ==
    /\ pc = "definitions"
    /\ definitionChunks' = processDefinitions(definitionsText)
    /\ pc' = "index"
    /\ UNCHANGED <<ChunkSize, ruleHierarchy, definitionsText, indexText,
                   indexEntries, chunks, extractVars, queryVars, embedVars, textVars>>

\* indexEntries := p.processIndex(indexText)
ProcessIndex ==
    /\ pc = "index"
    /\ indexEntries' = processIndex(indexText)
    /\ pc' = "terms"
    /\ UNCHANGED <<ChunkSize, ruleHierarchy, definitionsText, indexText,
                   definitionChunks, chunks, extractVars, queryVars, embedVars, textVars>>

\* p.applyIndexTermsToRules(ruleHierarchy, indexEntries)
ApplyIndexTermsToRules ==
    /\ pc = "terms"
    /\ ruleHierarchy' = applyIndexTermsToRules(ruleHierarchy, indexEntries)
    /\ pc' = "chunks"
    /\ UNCHANGED <<ChunkSize, definitionsText, indexText, definitionChunks,
                   indexEntries, chunks, extractVars, queryVars, embedVars, textVars>>

\* chunks := p.createRuleBasedChunks(ruleHierarchy)
CreateRuleBasedChunks ==
    /\ pc = "chunks"
    /\ \E iter \in IterationOrders(ruleHierarchy) :
          chunks' = createRuleBasedChunks(ruleHierarchy, ChunkSize, iter)
    /\ pc' = "append"
    /\ UNCHANGED <<ChunkSize, ruleHierarchy, definitionsText, indexText,
                   definitionChunks, indexEntries, extractVars, queryVars, embedVars, textVars>>

\* chunks = append(chunks, definitionChunks...)
AppendDefinitionChunks ==
    /\ pc = "append"
    /\ chunks' = chunks \o definitionChunks
    /\ pc' = "references"
    /\ UNCHANGED <<ChunkSize, ruleHierarchy, definitionsText, indexText,
                   definitionChunks, indexEntries, extractVars, queryVars, embedVars, textVars>>

\* p.extractCrossReferences(chunks); return chunks, nil
ExtractCrossReferences ==
    /\ pc = "references"
    /\ chunks' \in extractCrossReferences(chunks)
    /\ pc' = "returned"
    /\ UNCHANGED <<ChunkSize, ruleHierarchy, definitionsText, indexText,
                   definitionChunks, indexEntries, extractVars, queryVars, embedVars, textVars>>

\* p.extractCrossReferences(chunks), run once more on the returned list
ExtractCrossReferencesAgain ==
    /\ pc = "returned"
    /\ chunks' \in extractCrossReferences(chunks)
    /\ pc' = "resolved twice"
    /\ UNCHANGED <<ChunkSize, ruleHierarchy, definitionsText, indexText,
                   definitionChunks, indexEntries, extractVars, queryVars, embedVars, textVars>>

NextIndexing ==
    \/ ProcessDefinitions
    \/ ProcessIndex
    \/ ApplyIndexTermsToRules
    \/ CreateRuleBasedChunks
    \/ AppendDefinitionChunks
    \/ ExtractCrossReferences
    \/ ExtractCrossReferencesAgain

Spec == InitIndexing /\ [][NextIndexing]_vars
----------------------------------------------------------------------------
(* Properties of the indexing run.                                          *)

Built == pc \in {"append", "references", "returned", "resolved twice"}

Returned == pc \in {"returned", "resolved twice"}

ParagraphCount(chunk) == Len(SplitParagraphs(chunk.Content))

OfType(chunk, types) == chunk.Metadata.ChunkType \in types

\* two chunks cut from the same section
SameSection(a, b) ==
    /\ OfType(a, {"section"}) /\ OfType(b, {"section"})
    /\ a.Metadata.Section = b.Metadata.Section
    /\ a.Metadata.Subsection = b.Metadata.Subsection

\* chunk i is the last of several chunks of one section
FinalOfSplit(cs, i) ==
    /\ \E h \in DOMAIN cs : h < i /\ SameSection(cs[h], cs[i])
    /\ \A j \in DOMAIN cs : j > i => ~SameSection(cs[i], cs[j])

\* the three range loops of createRuleBasedChunks visiting in ascending key order
AscendingIteration(hier) ==
    [rules |-> Ascending(DOMAIN hier),
     secs |-> [r \in DOMAIN hier |-> Ascending(DOMAIN hier[r].Sections)],
     subs |-> [p \in {q \in SectionKeys(hier) : q[2] \in DOMAIN hier[q[1]].Sections} |->
                  Ascending(DOMAIN hier[p[1]].Sections[p[2]].Subsections)]]

\* C1: the ids of the chunk list of one run start at 1 and increase strictly
\* in emission order, the definition chunks included.
C1_IdsStrictlyIncreasing ==
    (pc \in {"references", "returned", "resolved twice"} /\ chunks # <<>>) =>
        /\ chunks[1].ID = 1
        /\ \A i, j \in DOMAIN chunks : i < j => chunks[i].ID < chunks[j].ID

\* C2: every rule, section and subsection chunk is at most ChunkSize long,
\* unless it is one single paragraph that is itself longer than ChunkSize.
C2_ChunkWithinSize ==
    Built =>
        \A i \in DOMAIN chunks :
            OfType(chunks[i], {"rule", "section", "subsection"}) =>
                \/ StrLen(chunks[i].Content) <= ChunkSize
                \/ ParagraphCount(chunks[i]) = 1

\* C3 as stated: every chunk is at least MIN_CHUNK_SIZE long, except the final
\* chunk of a split section and single-paragraph definition chunks.
C3_AtLeastMinimum ==
    Returned =>
        \A i \in DOMAIN chunks :
            \/ StrLen(chunks[i].Content) >= MIN_CHUNK_SIZE
            \/ FinalOfSplit(chunks, i)
            \/ (OfType(chunks[i], {"definition"}) /\ ParagraphCount(chunks[i]) = 1)

\* C3 as amended: every chunk of a split section but the final one is longer
\* than MIN_CHUNK_SIZE.
C3_NonFinalAboveMinimum ==
    Built =>
        \A i, j \in DOMAIN chunks :
            (i < j /\ SameSection(chunks[i], chunks[j])) =>
                StrLen(chunks[i].Content) > MIN_CHUNK_SIZE

\* a section that was split into three chunks or more
C3_Witness ==
    /\ Built
    /\ \E i, j, k \in DOMAIN chunks :
          i < j /\ j < k /\ SameSection(chunks[i], chunks[j]) /\ SameSection(chunks[j], chunks[k])

\* C4: createRuleBasedChunks emits the one chunk sequence that visiting rules,
\* sections and subsections in ascending key order gives.
C4_Deterministic ==
    pc = "append" =>
        chunks = createRuleBasedChunks(ruleHierarchy, ChunkSize,
                                       AscendingIteration(ruleHierarchy))

\* C5: on every returned chunk no cross-reference and no index term is listed twice.
C5_NoDuplicateEntries ==
    Returned =>
        \A i \in DOMAIN chunks :
            NoDuplicates(chunks[i].CrossReferences) /\ NoDuplicates(chunks[i].IndexTerms)

C6_Step ==
    pc \in {"references", "returned"} =>
        /\ Len(chunks') = Len(chunks)
        /\ \A i \in DOMAIN chunks :
              /\ chunks'[i].ID = chunks[i].ID
              /\ chunks'[i].Content = chunks[i].Content
              /\ chunks'[i].Metadata = chunks[i].Metadata
              /\ chunks'[i].IndexTerms = chunks[i].IndexTerms
              /\ Range(chunks'[i].CrossReferences) = ReferenceSet(chunks[i])
              /\ pc = "returned" =>
                    Range(chunks'[i].CrossReferences) = Range(chunks[i].CrossReferences)

\* C6: a run of extractCrossReferences changes no chunk's id, content, metadata
\* or index terms, and a second run leaves every chunk the reference set the
\* first run gave it.
C6_ResolverIdempotent == [][C6_Step]_vars

\* a second run over a list in which a chunk has two references
C6_Witness ==
    /\ pc = "resolved twice"
    /\ \E i \in DOMAIN chunks : Len(chunks[i].CrossReferences) >= 2
    /\ \E i \in DOMAIN chunks : chunks[i].CrossReferences = <<>>
----------------------------------------------------------------------------
(* The indexing run from the rules text on: extractRulesHierarchy, then     *)
(* the rest of ProcessPDF with no definitions and no index.                 *)

Line(kind, num, title, n, refs) ==
    [kind |-> kind, num |-> num, title |-> title, piece |-> Text(n, refs)]

LinePool ==
    {Line("rule", "Rule 1", "The Game", 20, <<"Rule 1">>),
     Line("rule", "Rule 2", "The Course", 22, <<"Rule 2">>),
     Line("section", "1.1", "Clubs", 10, <<>>),
     Line("section", "1.2", "Balls", 10, <<>>),
     Line("subsection", "1.1a", "Added Weight", 18, <<>>),
     Line("text", "", "", 12, <<"Rule 2">>)}

\* the lines cut into pages after the lines of `cuts`
Paginate(ls, cuts) ==
    [p \in 1..(Cardinality(cuts) + 1) |->
        LET idx == {i \in DOMAIN ls : 1 + Cardinality({c \in cuts : c < i}) = p}
        IN  IF idx = {} THEN <<>>
            ELSE SubSeq(ls, CHOOSE a \in idx : \A b \in idx : a <= b,
                            CHOOSE a \in idx : \A b \in idx : a >= b)]

\* the places at which page breaks may cut n lines into MaxPages pages at most
PageBreaks(n) == {c \in SUBSET (1..(n - 1)) : Cardinality(c) < MaxPages}

ExtractChunkSizeFlags == {0, 25}

InitExtract ==
    /\ NoBatch
    /\ \E n \in 0..MaxDocLines : \E ls \in [1..n -> LinePool] :
       \E cuts \in PageBreaks(n) : document = Paginate(ls, cuts)
    /\ \E f \in ExtractChunkSizeFlags : ChunkSize = NewPDFProcessor(f)
    /\ currentPageNum = 1
    /\ ruleHierarchy = <<>>
    /\ definitionsText = <<>>
    /\ indexText = <<>>
    /\ pc = "hierarchy"
    /\ definitionChunks = <<>>
    /\ indexEntries = <<>>
    /\ chunks = <<>>
    /\ query = Idle
    /\ store = Idle
    /\ search = Idle
    /\ response = Idle

\* one turn of the page loop of extractRulesHierarchy
ExtractPage ==
    /\ pc = "hierarchy"
    /\ currentPageNum <= Len(document)
    /\ ruleHierarchy' = ExtractFromPage(ruleHierarchy, document[currentPageNum],
                                        currentPageNum)
    /\ currentPageNum' = currentPageNum + 1
    /\ UNCHANGED <<pc, ChunkSize, definitionsText, indexText, definitionChunks,
                   indexEntries, chunks, document, openRule, queryVars, embedVars,
                   textVars>>

\* return hierarchy
ReturnHierarchy ==
    /\ pc = "hierarchy"
    /\ currentPageNum > Len(document)
    /\ pc' = "definitions"
    /\ UNCHANGED <<ChunkSize, ruleHierarchy, definitionsText, indexText,
                   definitionChunks, indexEntries, chunks, extractVars, queryVars, embedVars, textVars>>

NextExtract ==
    \/ ExtractPage
    \/ ReturnHierarchy
    \/ NextIndexing

SpecExtract == InitExtract /\ [][NextExtract]_vars

\* the place of a header line in the document
HeaderAt(p, i, kind, num) ==
    /\ p \in DOMAIN document /\ i \in DOMAIN document[p]
    /\ document[p][i].kind = kind /\ document[p][i].num = num

Occurrences(kind, num) ==
    {<<p, i>> \in (1..MaxPages) \X (1..MaxDocLines) : HeaderAt(p, i, kind, num)}

\* rule header R matched once in the document, then on the same page a
\* section header S in its span, then a subsection header T in the span of
\* S, S not being matched again in what is left of the span of R
HeadersInOrder(R, S, T) ==
    /\ Cardinality(Occurrences("rule", R)) = 1
    /\ \E p \in DOMAIN document : \E a, b, c \in DOMAIN document[p] :
          /\ a < b /\ b < c
          /\ HeaderAt(p, a, "rule", R)
          /\ HeaderAt(p, b, "section", S)
          /\ HeaderAt(p, c, "subsection", T)
          /\ \A i \in (a + 1)..c : document[p][i].kind # "rule"
          /\ \A i \in (b + 1)..c : document[p][i].kind # "section"
          /\ \A i \in (c + 1)..Len(document[p]) :
                HeaderAt(p, i, "section", S) =>
                   \E j \in (c + 1)..i : document[p][j].kind = "rule"

ChunksWith(type, hierarchy) ==
    {i \in DOMAIN chunks :
        chunks[i].Metadata.ChunkType = type /\ chunks[i].Metadata.Hierarchy = hierarchy}

\* the hierarchy path of a chunk is the chain of the keys of the node it is of
PathIsAncestorChain(chunk) ==
    LET m == chunk.Metadata
    IN  /\ m.Section \in DOMAIN ruleHierarchy
        /\ m.ChunkType = "rule" => m.Hierarchy = m.Section
        /\ m.ChunkType = "section" =>
              /\ m.Subsection \in DOMAIN ruleHierarchy[m.Section].Sections
              /\ m.Hierarchy = m.Section \o " > " \o m.Subsection
        /\ m.ChunkType = "subsection" =>
              \E s \in DOMAIN ruleHierarchy[m.Section].Sections :
                 /\ m.Subsection \in DOMAIN ruleHierarchy[m.Section].Sections[s].Subsections
                 /\ m.Hierarchy = m.Section \o " > " \o s \o " > " \o m.Subsection

----------------------------------------------------------------------------
(* Answering a question: processQuery and the searches of the database.     *)
(* A query is a sequence of tokens; text_chunks is a sequence of rows in    *)
(* the order of their distance to the query embedding, nearest first.       *)

MaxQueryTokens == 2   \* tokens in a question

QueryTokens == {"Rule 14.3", "Rule 2", "bunker", "unplayable", "OB", "ball"}

\* match[1] of rulePattern for the tokens it matches
MainRuleNumber(tok) ==
    CASE tok = "Rule 14.3" -> "14"
      [] tok = "Rule 2" -> "2"
      [] OTHER -> ""

MatchesRulePattern(tok) == MainRuleNumber(tok) # ""

\* strings.ToLower
ToLower(tok) ==
    CASE tok = "Rule 14.3" -> "rule 14.3"
      [] tok = "Rule 2" -> "rule 2"
      [] tok = "OB" -> "ob"
      [] OTHER -> tok

contains(slice, item) == \E i \in DOMAIN slice : slice[i] = item

RECURSIVE RuleRefsLoop(_, _, _)
RuleRefsLoop(q, i, ruleRefs) ==
    IF i > Len(q) THEN ruleRefs
    ELSE IF ~MatchesRulePattern(q[i]) THEN RuleRefsLoop(q, i + 1, ruleRefs)
    ELSE LET withRef == Append(ruleRefs, q[i])
             mainRule == "Rule " \o MainRuleNumber(q[i])
         IN  RuleRefsLoop(q, i + 1,
                          IF contains(withRef, mainRule) THEN withRef
                          ELSE Append(withRef, mainRule))

extractRuleReferences(q) == RuleRefsLoop(q, 1, <<>>)

\* the patterns map of identifyGolfTerms
patterns ==
    [p \in {"bunker", "out of bounds", "OB", "unplayable"} |->
        CASE p = "bunker" -> "bunker"
          [] p = "out of bounds" -> "out of bounds"
          [] p = "OB" -> "out of bounds"
          [] p = "unplayable" -> "unplayable ball"]

\* strings.Contains(strings.ToLower(query), pattern), on tokens
ContainsLowered(q, pattern) == \E i \in DOMAIN q : ToLower(q[i]) = pattern

\* the term lists identifyGolfTerms can return: one for each order in which
\* the range over the patterns map can visit the patterns
identifyGolfTerms(q) ==
    {[i \in DOMAIN order |-> patterns[order[i]]] :
        order \in MapOrders({p \in DOMAIN patterns : ContainsLowered(q, p)})}

Take(rows, limit) == SubSeq(rows, 1, IF limit < Len(rows) THEN limit ELSE Len(rows))

\* ORDER BY embedding <=> $1 LIMIT $2 over text_chunks
QuerySimilar(rows, limit) == Take(rows, limit)

\* section = ANY($1) OR parent_rule = ANY($1) OR a cross-reference = ANY($1)
LinkedTo(row, refs) ==
    \/ row.Section \in refs
    \/ row.ParentRule \in refs
    \/ \E i \in DOMAIN row.CrossReferences : row.CrossReferences[i] \in refs

\* the statement QuerySimilarWithStructure runs and the rows it returns
QuerySimilarWithStructure(rows, q, limit) ==
    LET ruleReferences == SelectSeq(q, MatchesRulePattern)
        IsRuleChunk(row) == LinkedTo(row, Range(ruleReferences))
    IN  IF Len(ruleReferences) > 0
        THEN [sql |-> "rule_chunks", rows |-> Take(SelectSeq(rows, IsRuleChunk), limit)]
        ELSE [sql |-> "text_chunks", rows |-> QuerySimilar(rows, limit)]

\* twice the term_score of a row: one for each term its content holds
TermScore(row, terms) == Cardinality({i \in DOMAIN terms : terms[i] \in row.Terms})

RECURSIVE ByTermScore(_, _, _)
\* ORDER BY term_score DESC, embedding <=> $1
ByTermScore(rows, terms, score) ==
    LET HasScore(row) == TermScore(row, terms) = score
    IN  IF score < 0 THEN <<>>
        ELSE SelectSeq(rows, HasScore) \o ByTermScore(rows, terms, score - 1)

QuerySimilarWithTerms(rows, terms, limit) ==
    [sql |-> "term_matches", rows |-> Take(ByTermScore(rows, terms, Len(terms)), limit)]

\* the branch of processQuery with the terms tested first
StrategyTermsFirst(queryRuleRefs, ruleFilter, golfTerms) ==
    IF Len(golfTerms) > 0 THEN "QuerySimilarWithTerms"
    ELSE IF Len(queryRuleRefs) > 0 \/ ruleFilter # "" THEN "QuerySimilarWithStructure"
    ELSE "QuerySimilar"

\* the branch of processQuery that runs
Strategy(queryRuleRefs, ruleFilter, golfTerms) ==
    IF Len(queryRuleRefs) > 0 \/ ruleFilter # "" THEN "QuerySimilarWithStructure"
    ELSE IF Len(golfTerms) > 0 THEN "QuerySimilarWithTerms"
    ELSE "QuerySimilar"

Row(section, parentRule, crossReferences, terms) ==
    [Section |-> section, ParentRule |-> parentRule,
     CrossReferences |-> crossReferences, Terms |-> terms]

\* rows as the chunk builder writes them: a rule chunk, section chunks and
\* a definition chunk
RowPool ==
    {Row("Rule 14", "", <<>>, {}),
     Row("Rule 2", "Rule 2", <<"Rule 14.3">>, {"bunker"}),
     Row("Rule 2", "Rule 2", <<>>, {"unplayable ball"}),
     Row("Definitions", "", <<"Rule 2">>, {"bunker"})}

SeqsUpTo(S, n) == UNION {[1..k -> S] : k \in 0..n}

RuleFilters == {"", "Rule 14"}

ContextLimits == {1, 2}

NoSearch == [queryRuleRefs |-> <<>>, golfTerms |-> <<>>, calls |-> <<>>,
             sql |-> <<>>, chunks |-> <<>>, err |-> FALSE, answers |-> <<>>]

\* the test of processQuery with one chunk counted as none
NoContextBelowTwo(found) == Len(found) < 2

\* len(chunks) == 0
NoContext(found) == Len(found) = 0

InitQuery ==
    /\ NoBatch
    /\ \E q \in SeqsUpTo(QueryTokens, MaxQueryTokens) \ {<<>>} :
       \E f \in RuleFilters : \E n \in ContextLimits :
          query = [text |-> q, ruleFilter |-> f, contextLimit |-> n]
    /\ store \in SeqsUpTo(RowPool, MaxStore)
    /\ search = NoSearch
    /\ response = Idle
    /\ pc = "processQuery"
    /\ ChunkSize = 0
    /\ ruleHierarchy = <<>>
    /\ definitionsText = <<>>
    /\ indexText = <<>>
    /\ definitionChunks = <<>>
    /\ indexEntries = <<>>
    /\ chunks = <<>>
    /\ document = <<>>
    /\ currentPageNum = 0

\* extractRuleReferences, identifyGolfTerms and embedder.EmbedText
EmbedQuery ==
    /\ pc = "processQuery"
    /\ \E terms \in identifyGolfTerms(query.text) : \E embedded \in BOOLEAN :
          /\ search' = [search EXCEPT !.queryRuleRefs = extractRuleReferences(query.text),
                                      !.golfTerms = terms]
          /\ IF embedded
             THEN pc' = "search" /\ UNCHANGED response
             ELSE /\ pc' = "done"
                  /\ response' = [kind |-> "error", Sources |-> <<>>]
    /\ UNCHANGED <<ChunkSize, ruleHierarchy, definitionsText, indexText,
                   definitionChunks, indexEntries, chunks, extractVars, query, store, embedVars, textVars>>

\* chunks, err = the result of a search: no rows and an error if the
\* statement fails
Searched(name, result, failed) ==
    /\ search' = [search EXCEPT !.calls = Append(@, name),
                                !.sql = Append(@, result.sql),
                                !.chunks = IF failed THEN <<>> ELSE result.rows,
                                !.err = failed]
    /\ pc' = "respond"
    /\ UNCHANGED <<ChunkSize, ruleHierarchy, definitionsText, indexText,
                   definitionChunks, indexEntries, chunks, extractVars, query, store,
                   response, embedVars, textVars>>

SearchWithStructure ==
    /\ pc = "search"
    /\ Strategy(search.queryRuleRefs, query.ruleFilter, search.golfTerms)
          = "QuerySimilarWithStructure"
    /\ \E failed \in BOOLEAN :
          Searched("QuerySimilarWithStructure",
                   QuerySimilarWithStructure(store, query.text, query.contextLimit),
                   failed)

SearchWithTerms ==
    /\ pc = "search"
    /\ Strategy(search.queryRuleRefs, query.ruleFilter, search.golfTerms)
          = "QuerySimilarWithTerms"
    /\ \E failed \in BOOLEAN :
          Searched("QuerySimilarWithTerms",
                   QuerySimilarWithTerms(store, search.golfTerms, query.contextLimit),
                   failed)

SearchSimilar ==
    /\ pc = "search"
    /\ Strategy(search.queryRuleRefs, query.ruleFilter, search.golfTerms)
          = "QuerySimilar"
    /\ \E failed \in BOOLEAN :
          Searched("QuerySimilar",
                   [sql |-> "text_chunks",
                    rows |-> QuerySimilar(store, query.contextLimit)],
                   failed)

\* len(chunks) == 0: the response that no relevant context was found
RespondNoContext ==
    /\ pc = "respond"
    /\ NoContext(search.chunks)
    /\ response' = [kind |-> "no relevant context", Sources |-> <<>>]
    /\ pc' = "done"
    /\ UNCHANGED <<ChunkSize, ruleHierarchy, definitionsText, indexText,
                   definitionChunks, indexEntries, chunks, extractVars, query, store,
                   search, embedVars, textVars>>

\* llmClient.Answer over the chunks found: search.answers lists the contexts
\* of each call of Answer
Answer ==
    /\ pc = "respond"
    /\ ~NoContext(search.chunks)
    /\ search' = [search EXCEPT !.answers = Append(@, search.chunks)]
    /\ \E answered \in BOOLEAN :
          response' = IF answered
                      THEN [kind |-> "answer", Sources |-> search.chunks]
                      ELSE [kind |-> "error", Sources |-> <<>>]
    /\ pc' = "done"
    /\ UNCHANGED <<ChunkSize, ruleHierarchy, definitionsText, indexText,
                   definitionChunks, indexEntries, chunks, extractVars, query, store, embedVars, textVars>>

NextQuery ==
    \/ EmbedQuery
    \/ SearchWithStructure
    \/ SearchWithTerms
    \/ SearchSimilar
    \/ RespondNoContext
    \/ Answer

SpecQuery == InitQuery /\ [][NextQuery]_vars

Searching == pc \in {"respond", "done"} /\ Len(search.calls) > 0

\* the reference set of a question: each extracted reference, its bare rule
\* number, and the rule filter when one is set
QueryReferenceSet ==
    Range(extractRuleReferences(query.text))
       \cup (IF query.ruleFilter # "" THEN {query.ruleFilter} ELSE {})

InReferenceSet(row) == LinkedTo(row, QueryReferenceSet)

\* C8: a question whose embedding was made runs exactly one search, chosen
\* by priority: the structure search if a rule reference was extracted or a
\* rule filter is set, else the term search if a golf term was extracted,
\* else the plain similarity search.
C8_OneStrategyByPriority ==
    /\ pc = "search" => search.calls = <<>>
    /\ Searching =>
          /\ Len(search.calls) = 1
          /\ search.queryRuleRefs = extractRuleReferences(query.text)
          /\ search.golfTerms \in identifyGolfTerms(query.text)
          /\ (Len(search.queryRuleRefs) > 0 \/ query.ruleFilter # "")
                => search.calls[1] = "QuerySimilarWithStructure"
          /\ (Len(search.queryRuleRefs) = 0 /\ query.ruleFilter = ""
                /\ Len(search.golfTerms) > 0)
                => search.calls[1] = "QuerySimilarWithTerms"
          /\ (Len(search.queryRuleRefs) = 0 /\ query.ruleFilter = ""
                /\ Len(search.golfTerms) = 0)
                => search.calls[1] = "QuerySimilar"

\* a question with both a rule reference and a golf term has been searched
C8_Witness ==
    /\ Searching
    /\ Len(search.queryRuleRefs) > 0
    /\ Len(search.golfTerms) > 0
    /\ search.calls = <<"QuerySimilarWithStructure">>

\* C9: when the structure search is selected and some stored chunk is
\* linked to the reference set (extracted references, their bare rule
\* numbers, the rule filter), every returned chunk is linked to it, and the
\* chunks linked to it are the candidates: as many of them are returned as
\* the limit allows.
C9_StructureSearchReturnsLinked ==
    (/\ Searching
     /\ search.calls[1] = "QuerySimilarWithStructure"
     /\ ~search.err
     /\ \E i \in DOMAIN store : InReferenceSet(store[i]))
    => /\ \A i \in DOMAIN search.chunks : InReferenceSet(search.chunks[i])
       /\ Len(search.chunks) = Len(Take(SelectSeq(store, InReferenceSet),
                                        query.contextLimit))

\* C10: when the structure search is selected and no stored chunk is linked
\* to the reference set while the store is not empty, the chunks handed to
\* answer generation are the top chunks of the plain similarity search, and
\* the query does not end with the no-relevant-context response.
C10_FallsBackToSimilarity ==
    (/\ Searching
     /\ search.calls[1] = "QuerySimilarWithStructure"
     /\ ~search.err
     /\ Len(store) > 0
     /\ \A i \in DOMAIN store : ~InReferenceSet(store[i]))
    => /\ search.chunks = QuerySimilar(store, query.contextLimit)
       /\ pc = "done" => response.kind # "no relevant context"

\* C11: a query whose embedding or whose search failed ends with the error
\* returned to the caller, never with an answer or the no-relevant-context
\* response, and no second search is run in place of the failed one.
C11_ErrorsReachCaller ==
    /\ Len(search.calls) <= 1
    /\ (pc = "done" /\ (search.calls = <<>> \/ search.err)) => response.kind = "error"

\* C16: a search that found no chunk ends with the no-relevant-context
\* response, no sources and no call of Answer; a search that found chunks
\* is followed by one call of Answer with those chunks in their order, and
\* they are the sources of the answer.
C16_ResponseFollowsChunks ==
    (pc = "done" /\ Len(search.calls) > 0) =>
        /\ Len(search.chunks) = 0 =>
              /\ response = [kind |-> "no relevant context", Sources |-> <<>>]
              /\ search.answers = <<>>
        /\ Len(search.chunks) > 0 =>
              /\ search.answers = <<search.chunks>>
              /\ response.kind \in {"answer", "error"}
              /\ response.kind = "answer" => response.Sources = search.chunks

\* an answer over two chunks, the nearer first
C16_Witness ==
    /\ pc = "done"
    /\ response.kind = "answer"
    /\ Len(response.Sources) = 2
    /\ response.Sources = search.chunks
    /\ response.Sources[1] # response.Sources[2]

----------------------------------------------------------------------------
(* Embedding a batch: EmbedBatchWithProgress with its workers, the retries  *)
(* of EmbedText in each worker, and the indexer that stores the result.     *)

MaxRetries == 3   \* OllamaEmbedder.MaxRetries

MaxBatch == 3     \* chunks in a batch

\* values of the flag max-concurrent: runtime.NumCPU()/2 is 0 on one CPU
MaxConcurrentFlags == {0, 1, 2}

\* a chunk of the batch and the worker goroutine embedding it
BatchItem(id) ==
    [ID |-> id, state |-> "unstarted", retries |-> 0, attempts |-> 0,
     slept |-> <<>>, cancelled |-> FALSE, Embedding |-> FALSE,
     slot |-> FALSE, done |-> FALSE]

\* the slots of the semaphore that are taken
Held == Cardinality({i \in DOMAIN batch : batch[i].slot})

\* a wait that is over before any worker is
NoWait(b) == TRUE

\* wg.Wait() returns: every worker of the batch has called wg.Done()
WaitGroupZero(b) == \A i \in DOMAIN b : b[i].done

\* what a receive from the closed errChan finds: nothing, whatever was sent
NoFirstError(errors) == <<>>

\* err := <-errChan after close(errChan): the first error sent, if any
FirstError(errors) == IF errors = <<>> THEN <<>> ELSE <<Head(errors)>>

\* the retry loop of EmbedText going round once too often
MayRetryOnceMore(retries) == retries <= MaxRetries

\* the retry loop of EmbedText: after a failed attempt retries++ and the test
\* retries <= e.MaxRetries
MayRetry(retries) == retries + 1 <= MaxRetries

\* a send on a semaphore that never fills
AcquiresAlways(held, capacity) == TRUE

\* semaphore <- struct{}{} goes through while the channel of the given
\* capacity has room
Acquires(held, capacity) == held < capacity

InitEmbed ==
    /\ pc = "EmbedBatchWithProgress"
    /\ MaxConcurrent \in MaxConcurrentFlags
    /\ \E n \in 0..MaxBatch : batch = [i \in 1..n |-> BatchItem(i)]
    /\ nextChunk = 1
    /\ errChan = <<>>
    /\ ctxDone = FALSE
    /\ batchResult = Idle
    /\ openRule = ""
    /\ pdfText = <<>>
    /\ processedText = <<>>
    /\ rulesText = <<>>
    /\ store = <<>>
    /\ ChunkSize = 0
    /\ ruleHierarchy = <<>>
    /\ definitionsText = <<>>
    /\ indexText = <<>>
    /\ definitionChunks = <<>>
    /\ indexEntries = <<>>
    /\ chunks = <<>>
    /\ document = <<>>
    /\ currentPageNum = 0
    /\ query = Idle
    /\ search = Idle
    /\ response = Idle

EmbedUnchanged ==
    UNCHANGED <<ChunkSize, ruleHierarchy, definitionsText, indexText, definitionChunks,
                indexEntries, chunks, extractVars, query, search, response, MaxConcurrent,
                textVars>>

\* the launch loop: wg.Add(1), a send on the semaphore, go func(i)
Launch ==
    /\ pc = "EmbedBatchWithProgress"
    /\ nextChunk <= Len(batch)
    /\ Acquires(Held, MaxConcurrent)
    /\ batch' = [batch EXCEPT ![nextChunk].state = "running", ![nextChunk].slot = TRUE]
    /\ nextChunk' = nextChunk + 1
    /\ UNCHANGED <<pc, errChan, ctxDone, batchResult, store>>
    /\ EmbedUnchanged

\* EmbedText in worker i: the sleep before a retry, then createEmbedding
StartAttempt(i) ==
    /\ pc = "EmbedBatchWithProgress"
    /\ batch[i].state = "running"
    /\ batch' = [batch EXCEPT
                    ![i].state = "requesting",
                    ![i].attempts = @ + 1,
                    ![i].slept = IF batch[i].retries > 0
                                 THEN Append(@, batch[i].retries) ELSE @,
                    ![i].cancelled = ctxDone]
    /\ UNCHANGED <<pc, nextChunk, errChan, ctxDone, batchResult, store>>
    /\ EmbedUnchanged

\* createEmbedding returns the embedding: the chunk is updated, the worker ends
AttemptSucceeds(i) ==
    /\ pc = "EmbedBatchWithProgress"
    /\ batch[i].state = "requesting"
    /\ ~batch[i].cancelled
    /\ batch' = [batch EXCEPT ![i].state = "embedded", ![i].Embedding = TRUE]
    /\ UNCHANGED <<pc, nextChunk, errChan, ctxDone, batchResult, store>>
    /\ EmbedUnchanged

\* createEmbedding returns an error: the next retry, or after the last one
\* the error is sent on errChan and the worker ends
AttemptFails(i) ==
    /\ pc = "EmbedBatchWithProgress"
    /\ batch[i].state = "requesting"
    /\ IF MayRetry(batch[i].retries)
       THEN /\ batch' = [batch EXCEPT ![i].state = "running", ![i].retries = @ + 1]
            /\ UNCHANGED errChan
       ELSE /\ batch' = [batch EXCEPT ![i].state = "failed"]
            /\ errChan' = Append(errChan, batch[i].ID)
    /\ UNCHANGED <<pc, nextChunk, ctxDone, batchResult, store>>
    /\ EmbedUnchanged

\* the deferred function of worker i, first half: wg.Done()
WorkerDone(i) ==
    /\ pc \in {"EmbedBatchWithProgress", "indexer", "exit", "done"}
    /\ batch[i].state \in {"embedded", "failed"}
    /\ ~batch[i].done
    /\ batch' = [batch EXCEPT ![i].done = TRUE]
    /\ UNCHANGED <<pc, nextChunk, errChan, ctxDone, batchResult, store>>
    /\ EmbedUnchanged

\* the deferred function of worker i, second half: <-semaphore
Release(i) ==
    /\ pc \in {"EmbedBatchWithProgress", "indexer", "exit", "done"}
    /\ batch[i].done
    /\ batch[i].slot
    /\ batch' = [batch EXCEPT ![i].slot = FALSE]
    /\ UNCHANGED <<pc, nextChunk, errChan, ctxDone, batchResult, store>>
    /\ EmbedUnchanged

\* the context of the call is cancelled or its deadline passes
Cancel ==
    /\ pc = "EmbedBatchWithProgress"
    /\ ~ctxDone
    /\ ctxDone' = TRUE
    /\ UNCHANGED <<pc, batch, nextChunk, errChan, batchResult, store>>
    /\ EmbedUnchanged

\* wg.Wait(), close(errChan), and the return
ReturnBatch ==
    /\ pc = "EmbedBatchWithProgress"
    /\ nextChunk > Len(batch)
    /\ WaitGroupZero(batch)
    /\ batchResult' = IF FirstError(errChan) # <<>>
                      THEN [chunks |-> <<>>, err |-> FirstError(errChan)]
                      ELSE [chunks |-> batch, err |-> <<>>]
    /\ nextChunk' = 1
    /\ pc' = "indexer"
    /\ UNCHANGED <<batch, errChan, ctxDone, store>>
    /\ EmbedUnchanged

\* the indexer on an error of the batch: log.Fatalf
Fatal ==
    /\ pc = "indexer"
    /\ batchResult.err # <<>>
    /\ pc' = "exit"
    /\ UNCHANGED <<batch, nextChunk, errChan, ctxDone, batchResult, store>>
    /\ EmbedUnchanged

\* one turn of the indexer's loop over embeddedChunks: the chunk is stored,
\* or a warning is logged
StoreTextChunk ==
    /\ pc = "indexer"
    /\ batchResult.err = <<>>
    /\ nextChunk <= Len(batchResult.chunks)
    /\ \E stored \in BOOLEAN :
          store' = IF stored
                   THEN Append(store, [ID |-> batchResult.chunks[nextChunk].ID,
                                       Embedding |-> batchResult.chunks[nextChunk].Embedding])
                   ELSE store
    /\ nextChunk' = nextChunk + 1
    /\ UNCHANGED <<pc, batch, errChan, ctxDone, batchResult>>
    /\ EmbedUnchanged

\* the indexer after its loop
Completed ==
    /\ pc = "indexer"
    /\ batchResult.err = <<>>
    /\ nextChunk > Len(batchResult.chunks)
    /\ pc' = "done"
    /\ UNCHANGED <<batch, nextChunk, errChan, ctxDone, batchResult, store>>
    /\ EmbedUnchanged

NextEmbed ==
    \/ Launch
    \/ \E i \in DOMAIN batch : StartAttempt(i)
    \/ \E i \in DOMAIN batch : AttemptSucceeds(i)
    \/ \E i \in DOMAIN batch : AttemptFails(i)
    \/ \E i \in DOMAIN batch : WorkerDone(i)
    \/ \E i \in DOMAIN batch : Release(i)
    \/ Cancel
    \/ ReturnBatch
    \/ Fatal
    \/ StoreTextChunk
    \/ Completed

SpecEmbed == InitEmbed /\ [][NextEmbed]_vars

BatchReturned == batchResult # Idle

\* C12: when the embedding of a chunk failed after its retries, the batch
\* returns an error and no chunk list, and the indexer stores no chunk; a
\* batch returned as a success has every chunk embedded, and only chunks of
\* such a batch are stored.
C12_FailedBatchNotStored ==
    /\ ~BatchReturned => store = <<>>
    /\ BatchReturned =>
          /\ (\E i \in DOMAIN batch : batch[i].state = "failed") =>
                /\ batchResult.err # <<>>
                /\ batchResult.chunks = <<>>
                /\ store = <<>>
                /\ pc \in {"indexer", "exit"}
          /\ batchResult.err = <<>> =>
                /\ Len(batchResult.chunks) = Len(batch)
                /\ \A i \in DOMAIN batchResult.chunks : batchResult.chunks[i].Embedding
          /\ \A k \in DOMAIN store : store[k].Embedding

\* the indexer has exited on a batch of which one chunk was embedded and
\* another failed
C12_Witness ==
    /\ pc = "exit"
    /\ \E i, j \in DOMAIN batch :
          batch[i].state = "embedded" /\ batch[j].state = "failed"
    /\ store = <<>>

\* a step taken once the context is done starts no embedding attempt, and
\* if it is the return of a batch with a chunk left unembedded it returns
\* an error
C13_Step ==
    ctxDone =>
        /\ \A i \in DOMAIN batch : batch'[i].attempts = batch[i].attempts
        /\ (~BatchReturned /\ batchResult' # Idle
              /\ \E i \in DOMAIN batch : ~batch[i].Embedding)
              => batchResult'.err # <<>>

\* C13: once the context of a batch in flight is cancelled or timed out, no
\* further embedding attempt is started, neither a retry nor the request of
\* a chunk not yet started, and the batch returns an error.
C13_NoAttemptAfterCancel == [][C13_Step]_vars

(***************************************************************************)
(* Preprocessing and the split into regions.  A text is a sequence of      *)
(* tokens: a token is a word or one whitespace character.  "\n" is the     *)
(* line break and "\f" the page break.                                     *)
(***************************************************************************)
MaxTextLen == 5

Whitespace == {" ", "\n", "\f"}

HeaderMarkers == {"Rules of Golf", "Page", "Contents"}

\* the fourth marker of the code is the copyright sign
FooterMarkers == {"Page", "R&A", "USGA"}

TokenLen(tok) ==
    CASE tok = "Page" -> 4
      [] tok = "DQ" -> 2
      [] tok = "disqualification" -> 16
      [] tok = "Index" -> 5
      [] tok = "XI. Definitions" -> 15
      [] tok = "a sentence of fifty bytes" -> 50
      [] OTHER -> 1

RECURSIVE TextLen(_)
TextLen(t) == IF t = <<>> THEN 0 ELSE TokenLen(Head(t)) + TextLen(Tail(t))

Count(t, tok) == Cardinality({i \in 1..Len(t) : t[i] = tok})

RECURSIVE SplitOn(_, _)
\* strings.Split / regexp.Split with n = -1: one more part than separators
SplitOn(t, sep) ==
    IF \A i \in 1..Len(t) : t[i] # sep THEN <<t>>
    ELSE LET i == CHOOSE k \in 1..Len(t) :
                      t[k] = sep /\ \A j \in 1..(k - 1) : t[j] # sep
         IN  <<SubSeq(t, 1, i - 1)>> \o SplitOn(SubSeq(t, i + 1, Len(t)), sep)

RECURSIVE JoinWith(_, _)
\* strings.Join
JoinWith(parts, sep) ==
    IF parts = <<>> THEN <<>>
    ELSE IF Len(parts) = 1 THEN parts[1]
    ELSE parts[1] \o <<sep>> \o JoinWith(Tail(parts), sep)

\* strings.TrimSpace
TrimSpace(t) ==
    LET solid == {i \in 1..Len(t) : t[i] \notin Whitespace}
    IN  IF solid = {} THEN <<>>
        ELSE SubSeq(t, CHOOSE i \in solid : \A j \in solid : i <= j,
                       CHOOSE i \in solid : \A j \in solid : i >= j)

LooksLike(line, markers) ==
    /\ TextLen(TrimSpace(line)) < 50
    /\ \E i \in 1..Len(line) : line[i] \in markers

\* the body of the page loop for a page that is kept; i counts from 0 as in
\* the code
CleanPage(page) ==
    LET lines == SplitOn(page, "\n")
        n == Len(lines)
        first == IF n < 3 THEN n ELSE 3
        last == IF n - 4 < 0 THEN 0 ELSE n - 4
        headerHits == {i \in 0..(first - 1) : LooksLike(lines[i + 1], HeaderMarkers)}
        footerHits == {i \in last..(n - 1) : LooksLike(lines[i + 1], FooterMarkers)}
        headerEnd == IF headerHits = {} THEN 0
                     ELSE 1 + CHOOSE i \in headerHits : \A j \in headerHits : i >= j
        footerStart == IF footerHits = {} THEN n
                       ELSE CHOOSE i \in footerHits : \A j \in footerHits : i <= j
    IN  IF headerEnd < footerStart
        THEN JoinWith(SubSeq(lines, headerEnd + 1, footerStart), "\n")
        ELSE page

KeptPage(page) == Len(SplitOn(page, "\n")) >= 3

removeHeadersFooters(t) ==
    LET pages == SplitOn(t, "\f")
        kept == SelectSeq(pages, KeptPage)
        cleanedPages == [i \in 1..Len(kept) |-> CleanPage(kept[i])]
    IN  JoinWith(cleanedPages, "\n")

RECURSIVE SkipSpace(_)
SkipSpace(t) ==
    IF t # <<>> /\ Head(t) \in Whitespace THEN SkipSpace(Tail(t)) ELSE t

RECURSIVE CollapseSpace(_)
\* spaceRe: every run of whitespace, line and page breaks included, becomes
\* one space
CollapseSpace(t) ==
    IF t = <<>> THEN <<>>
    ELSE IF Head(t) \in Whitespace THEN <<" ">> \o CollapseSpace(SkipSpace(t))
    ELSE <<Head(t)>> \o CollapseSpace(Tail(t))

RECURSIVE SeparateParagraphs(_)
\* paraSepRe: a line break, whitespace, and a last line break become two
\* line breaks
SeparateParagraphs(t) ==
    IF t = <<>> THEN <<>>
    ELSE LET run == Len(t) - Len(SkipSpace(t))
             ends == {k \in 2..run : t[k] = "\n"}
         IN  IF Head(t) = "\n" /\ ends # {}
             THEN LET k == CHOOSE e \in ends : \A f \in ends : e >= f
                  IN  <<"\n", "\n">> \o SeparateParagraphs(SubSeq(t, k + 1, Len(t)))
             ELSE <<Head(t)>> \o SeparateParagraphs(Tail(t))

normalizeWhitespace(t) == TrimSpace(SeparateParagraphs(CollapseSpace(t)))

\* of the abbreviations the texts here hold "DQ"
expandGolfAbbreviations(t) ==
    [i \in 1..Len(t) |-> IF t[i] = "DQ" THEN "disqualification" ELSE t[i]]

preprocessGolfRules(t) ==
    expandGolfAbbreviations(normalizeWhitespace(removeHeadersFooters(t)))

\* FindStringIndex of definitionsStartRe: the position of the first match,
\* 0 for none
definitionsMatches(t) ==
    LET hits == {i \in 1..Len(t) : t[i] = "XI. Definitions"}
    IN  IF hits = {} THEN 0 ELSE CHOOSE i \in hits : \A j \in hits : i <= j

\* FindStringIndex of indexStartRe: "Index", whitespace, a line break
indexMatches(t) ==
    LET hits == {i \in 1..Len(t) :
                    /\ t[i] = "Index"
                    /\ \E j \in (i + 1)..Len(t) :
                          /\ t[j] = "\n"
                          /\ \A k \in (i + 1)..(j - 1) : t[k] \in Whitespace}
    IN  IF hits = {} THEN 0 ELSE CHOOSE i \in hits : \A j \in hits : i <= j

\* the three regions, or the panic of a slice whose low bound is above its
\* high bound
extractDocumentSections(t) ==
    LET d == definitionsMatches(t)
        x == indexMatches(t)
    IN  IF d > 0 /\ x > 0
        THEN IF d > x
             THEN [panic |-> TRUE, ruleText |-> SubSeq(t, 1, d - 1),
                   definitionsText |-> <<>>, indexText |-> <<>>]
             ELSE [panic |-> FALSE, ruleText |-> SubSeq(t, 1, d - 1),
                   definitionsText |-> SubSeq(t, d, x - 1),
                   indexText |-> SubSeq(t, x, Len(t))]
        ELSE IF d > 0
        THEN [panic |-> FALSE, ruleText |-> SubSeq(t, 1, d - 1),
              definitionsText |-> SubSeq(t, d, Len(t)), indexText |-> <<>>]
        ELSE IF x > 0
        THEN [panic |-> FALSE, ruleText |-> SubSeq(t, 1, x - 1),
              definitionsText |-> <<>>, indexText |-> SubSeq(t, x, Len(t))]
        ELSE [panic |-> FALSE, ruleText |-> t,
              definitionsText |-> <<>>, indexText |-> <<>>]

PdfTokens == {"w", "Page", "DQ", " ", "\n", "\f"}

SectionTokens == {"w", " ", "\n", "Index", "XI. Definitions"}

TextUnchanged ==
    UNCHANGED <<ChunkSize, ruleHierarchy, definitionChunks, indexEntries, chunks,
                extractVars, queryVars, embedVars>>

NoRegions ==
    /\ NoBatchYet
    /\ ChunkSize = 0
    /\ ruleHierarchy = <<>>
    /\ definitionsText = <<>>
    /\ indexText = <<>>
    /\ definitionChunks = <<>>
    /\ indexEntries = <<>>
    /\ chunks = <<>>
    /\ document = <<>>
    /\ currentPageNum = 0
    /\ query = Idle
    /\ store = <<>>
    /\ search = Idle
    /\ response = Idle
    /\ rulesText = <<>>

\* ProcessPDF once ExtractText has returned the text of the PDF
InitPreprocess ==
    /\ NoRegions
    /\ pc = "preprocessGolfRules"
    /\ \E n \in 0..MaxTextLen : pdfText \in [1..n -> PdfTokens]
    /\ processedText = pdfText

\* extractDocumentSections called with a text of its own
InitSections ==
    /\ NoRegions
    /\ pc = "extractDocumentSections"
    /\ \E n \in 0..MaxTextLen : pdfText \in [1..n -> SectionTokens]
    /\ processedText = pdfText

RemoveHeadersFooters ==
    /\ pc = "preprocessGolfRules"
    /\ processedText' = removeHeadersFooters(processedText)
    /\ pc' = "normalizeWhitespace"
    /\ UNCHANGED <<pdfText, rulesText, definitionsText, indexText>>
    /\ TextUnchanged

NormalizeWhitespace ==
    /\ pc = "normalizeWhitespace"
    /\ processedText' = normalizeWhitespace(processedText)
    /\ pc' = "expandGolfAbbreviations"
    /\ UNCHANGED <<pdfText, rulesText, definitionsText, indexText>>
    /\ TextUnchanged

\* normalizeRuleReferences, expandGolfAbbreviations, handleDiagramReferences:
\* the patterns of the first and the last need tokens these texts do not hold
ExpandGolfAbbreviations ==
    /\ pc = "expandGolfAbbreviations"
    /\ processedText' = expandGolfAbbreviations(processedText)
    /\ pc' = "extractDocumentSections"
    /\ UNCHANGED <<pdfText, rulesText, definitionsText, indexText>>
    /\ TextUnchanged

ExtractDocumentSections ==
    /\ pc = "extractDocumentSections"
    /\ LET r == extractDocumentSections(processedText)
       IN  IF r.panic
           THEN /\ pc' = "panic"
                /\ UNCHANGED <<rulesText, definitionsText, indexText>>
           ELSE /\ pc' = "extractRulesHierarchy"
                /\ rulesText' = r.ruleText
                /\ definitionsText' = r.definitionsText
                /\ indexText' = r.indexText
    /\ UNCHANGED <<pdfText, processedText>>
    /\ TextUnchanged

NextPreprocess ==
    \/ RemoveHeadersFooters
    \/ NormalizeWhitespace
    \/ ExpandGolfAbbreviations
    \/ ExtractDocumentSections

SpecPreprocess == InitPreprocess /\ [][NextPreprocess]_vars

NextSections == ExtractDocumentSections

SpecSections == InitSections /\ [][NextSections]_vars

Preprocessed == pc \in {"extractDocumentSections", "extractRulesHierarchy"}

\* C14: preprocessing keeps the page structure: the preprocessed text holds
\* as many page breaks as the text of the PDF
C14_PageBreaksKept ==
    Preprocessed => Count(processedText, "\f") = Count(pdfText, "\f")

FirstSentinel(t) ==
    LET d == definitionsMatches(t)
        x == indexMatches(t)
    IN  IF d = 0 THEN x ELSE IF x = 0 THEN d ELSE IF d < x THEN d ELSE x

\* C15: for every text extractDocumentSections returns, its three regions in
\* order make up the text, and the rules region is the text before the first
\* sentinel found, the whole text when there is none
C15_RegionsPartitionText ==
    /\ pc # "panic"
    /\ pc = "extractRulesHierarchy" =>
          /\ rulesText \o definitionsText \o indexText = processedText
          /\ rulesText = IF FirstSentinel(processedText) = 0 THEN processedText
                         ELSE SubSeq(processedText, 1, FirstSentinel(processedText) - 1)

(***************************************************************************)
(* Splitting one section whose paragraphs all have the same length.         *)
(***************************************************************************)
MaxUniformParas == 3

MaxParagraphLen == 110

MaxChunkSizeFlag == 170

\* k paragraphs of n bytes each, joined by the paragraph separator
UniformContent(k, n) == JoinParagraphs([i \in 1..k |-> <<Text(n, <<>>)>>])

\* createRuleBasedChunks called on one rule with one section, for any
\* -chunk-size
InitSplit ==
    /\ NoBatch
    /\ \E flag \in 0..MaxChunkSizeFlag : ChunkSize = NewPDFProcessor(flag)
    /\ \E k \in 1..MaxUniformParas : \E n \in 1..MaxParagraphLen :
          ruleHierarchy =
              [r \in {"Rule 1"} |->
                  GolfRuleHierarchy(r, [s \in {"1.1"} |->
                      RuleSection(r, s, UniformContent(k, n), {})])]
    /\ definitionsText = <<>>
    /\ indexText = <<>>
    /\ pc = "chunks"
    /\ definitionChunks = <<>>
    /\ indexEntries = <<>>
    /\ chunks = <<>>
    /\ document = Idle
    /\ currentPageNum = 0
    /\ query = Idle
    /\ store = Idle
    /\ search = Idle
    /\ response = Idle

NextSplit == CreateRuleBasedChunks

SpecSplit == InitSplit /\ [][NextSplit]_vars

\* the section chunks made from section s of rule r, in the order emitted
SectionChunksOf(r, s) ==
    SelectSeq(chunks, LAMBDA c : /\ OfType(c, {"section"})
                                 /\ c.Metadata.Section = r
                                 /\ c.Metadata.Subsection = s)

\* the content is 2*ChunkSize+1 bytes long, in paragraphs of one length
\* below ChunkSize
TwiceMaxPlusOneUniform(content) ==
    LET paragraphs == SplitParagraphs(content)
    IN  /\ StrLen(content) = 2 * ChunkSize + 1
        /\ \A i, j \in DOMAIN paragraphs :
              StrLen(paragraphs[i]) = StrLen(paragraphs[j])
        /\ \A i \in DOMAIN paragraphs : StrLen(paragraphs[i]) < ChunkSize

\* C17: a section whose content is 2*ChunkSize+1 bytes of paragraphs of one
\* length below ChunkSize gives at least three chunks, and each of them but
\* the last is at least MIN_CHUNK_SIZE long
C17_AtLeastThreeChunks ==
    Built =>
        \A r \in DOMAIN ruleHierarchy : \A s \in DOMAIN ruleHierarchy[r].Sections :
            TwiceMaxPlusOneUniform(ruleHierarchy[r].Sections[s].Content) =>
                LET cs == SectionChunksOf(r, s)
                IN  /\ Len(cs) >= 3
                    /\ \A i \in 1..(Len(cs) - 1) :
                          StrLen(cs[i].Content) >= MIN_CHUNK_SIZE

\* C18: a section or subsection whose content is empty produces no chunk: no
\* section or subsection chunk built by createRuleBasedChunks has empty content
C18_NoEmptySectionChunk ==
    Built =>
        \A i \in DOMAIN chunks :
            OfType(chunks[i], {"section", "subsection"}) =>
                StrLen(chunks[i].Content) > 0

(***************************************************************************)
(* The hierarchy extractor across headers and pages.                       *)
(***************************************************************************)
\* place a comes before place b in the document; a place is <<page, line>>
Precedes(a, b) == a[1] < b[1] \/ (a[1] = b[1] /\ a[2] < b[2])

HeaderPlaces(kind) ==
    {q \in (1..MaxPages) \X (1..MaxDocLines) :
        /\ q[1] \in DOMAIN document /\ q[2] \in DOMAIN document[q[1]]
        /\ document[q[1]][q[2]].kind = kind}

\* the rule headers before place b, and the last of them
RuleHeadersBefore(b) == {q \in HeaderPlaces("rule") : Precedes(q, b)}

LastRuleHeaderBefore(b) ==
    CHOOSE q \in RuleHeadersBefore(b) :
        \A o \in RuleHeadersBefore(b) : o = q \/ Precedes(o, q)

HierarchyReturned == pc = "definitions"

\* C19: every section header is recorded under the rule whose header most
\* recently precedes it in the document, on the same page or on an earlier
\* one.  Stated for rules whose header occurs once, so that no header
\* matched again stands between the rule and its section.
C19_SectionUnderPrecedingRule ==
    HierarchyReturned =>
        \A b \in HeaderPlaces("section") :
            RuleHeadersBefore(b) # {} =>
                LET q == LastRuleHeaderBefore(b)
                    ruleNum == document[q[1]][q[2]].num
                    sectionNum == document[b[1]][b[2]].num
                IN  Cardinality(Occurrences("rule", ruleNum)) = 1 =>
                        /\ ruleNum \in DOMAIN ruleHierarchy
                        /\ sectionNum \in DOMAIN ruleHierarchy[ruleNum].Sections

\* a turn of the page loop keeps every rule, section and subsection key
C20_Step ==
    \A r \in DOMAIN ruleHierarchy :
        /\ r \in DOMAIN ruleHierarchy'
        /\ \A s \in DOMAIN ruleHierarchy[r].Sections :
              /\ s \in DOMAIN ruleHierarchy'[r].Sections
              /\ DOMAIN ruleHierarchy[r].Sections[s].Subsections
                    \subseteq DOMAIN ruleHierarchy'[r].Sections[s].Subsections

\* C20: matching a rule or section header again keeps what was recorded
\* under it: during extraction the section and subsection keys of a rule
\* never shrink
C20_KeysNeverShrink == [][C20_Step]_vars

(***************************************************************************)
(* extractHierarchy, the extractor of internal/processor/pdf.go: rules,    *)
(* subrules and exceptions.  A page is matched three times over: all its   *)
(* rule headers, then all its subrule headers, then all its exception      *)
(* markers.                                                                *)
(***************************************************************************)
RuleHierarchy(ruleNum, ruleTitle, pageNum) ==
    [RuleNumber |-> ruleNum, Title |-> ruleTitle, PageNumber |-> pageNum,
     Subrules |-> <<>>, Path |-> ruleNum]

SubRule(rule, subruleNum, subruleTitle, pageNum) ==
    [Number |-> subruleNum, Title |-> subruleTitle, PageNumber |-> pageNum,
     Exceptions |-> <<>>, Path |-> rule \o " > " \o subruleNum]

\* m[k] = v of a Go map
MapSet(m, k, v) == [t \in DOMAIN m \cup {k} |-> IF t = k THEN v ELSE m[t]]

RECURSIVE MainRuleLoop(_, _, _, _, _)
\* the loop over mainRuleMatches: the hierarchy and currentRule after it
MainRuleLoop(page, starts, i, st, pageNum) ==
    IF i > Len(starts) THEN st
    ELSE LET line == page[starts[i]]
         IN  MainRuleLoop(page, starts, i + 1,
                 [hierarchy |-> MapSet(st.hierarchy, line.num,
                                       RuleHierarchy(line.num, line.title, pageNum)),
                  currentRule |-> line.num],
                 pageNum)

RECURSIVE SubruleLoop(_, _, _, _, _, _)
\* the loop over subruleMatches, entered when currentRule is not ""
SubruleLoop(page, starts, i, hier, rule, pageNum) ==
    IF i > Len(starts) THEN hier
    ELSE LET line == page[starts[i]]
             hier1 == IF rule \in DOMAIN hier
                      THEN MapSet(hier, rule,
                               [hier[rule] EXCEPT !.Subrules =
                                   MapSet(@, line.num,
                                          SubRule(rule, line.num, line.title, pageNum))])
                      ELSE hier
         IN  SubruleLoop(page, starts, i + 1, hier1, rule, pageNum)

\* the greatest key of rule.Subrules, "" for none
lastSubrule(subrules) ==
    IF DOMAIN subrules = {} THEN ""
    ELSE CHOOSE k \in DOMAIN subrules :
             \A o \in DOMAIN subrules : KeyRank(o) <= KeyRank(k)

RECURSIVE ExceptionLoop(_, _, _, _, _)
\* the loop over exceptionMatches
ExceptionLoop(page, starts, i, hier, rule) ==
    IF i > Len(starts) THEN hier
    ELSE LET line == page[starts[i]]
             last == IF rule # "" /\ rule \in DOMAIN hier
                     THEN lastSubrule(hier[rule].Subrules) ELSE ""
             hier1 == IF last # ""
                      THEN MapSet(hier, rule,
                               [hier[rule] EXCEPT !.Subrules =
                                   MapSet(@, last,
                                       [@[last] EXCEPT !.Exceptions =
                                           MapSet(@, line.num, line.title)])])
                      ELSE hier
         IN  ExceptionLoop(page, starts, i + 1, hier1, rule)

\* one turn of the page loop of extractHierarchy
ExtractHierarchyFromPage(hier, rule, page, pageNum) ==
    LET st == MainRuleLoop(page, MatchStarts(page, "rule"), 1,
                           [hierarchy |-> hier, currentRule |-> rule], pageNum)
        withSubrules == IF st.currentRule # ""
                        THEN SubruleLoop(page, MatchStarts(page, "subrule"), 1,
                                         st.hierarchy, st.currentRule, pageNum)
                        ELSE st.hierarchy
    IN  [hierarchy |-> ExceptionLoop(page, MatchStarts(page, "exception"), 1,
                                     withSubrules, st.currentRule),
         currentRule |-> st.currentRule]

SubruleLinePool ==
    {Line("rule", "Rule 1", "The Game", 20, <<"Rule 1">>),
     Line("rule", "Rule 2", "The Course", 22, <<"Rule 2">>),
     Line("subrule", "1.1", "Clubs", 10, <<>>),
     Line("subrule", "1.2", "Balls", 10, <<>>),
     Line("exception", "Exception", "unless a Local Rule allows it", 40, <<>>)}

\* extractHierarchy called on the preprocessed text
InitHierarchy ==
    /\ NoBatch
    /\ \E n \in 0..MaxDocLines : \E ls \in [1..n -> SubruleLinePool] :
       \E cuts \in PageBreaks(n) : document = Paginate(ls, cuts)
    /\ ChunkSize = MAX_CHUNK_SIZE
    /\ currentPageNum = 1
    /\ ruleHierarchy = <<>>
    /\ definitionsText = <<>>
    /\ indexText = <<>>
    /\ pc = "extractHierarchy"
    /\ definitionChunks = <<>>
    /\ indexEntries = <<>>
    /\ chunks = <<>>
    /\ query = Idle
    /\ store = Idle
    /\ search = Idle
    /\ response = Idle

HierarchyUnchanged ==
    UNCHANGED <<ChunkSize, definitionsText, indexText, definitionChunks,
                indexEntries, chunks, document, queryVars, embedVars, textVars>>

ExtractHierarchyPage ==
    /\ pc = "extractHierarchy"
    /\ currentPageNum <= Len(document)
    /\ LET r == ExtractHierarchyFromPage(ruleHierarchy, openRule,
                                         document[currentPageNum], currentPageNum)
       IN  /\ ruleHierarchy' = r.hierarchy
           /\ openRule' = r.currentRule
    /\ currentPageNum' = currentPageNum + 1
    /\ UNCHANGED pc
    /\ HierarchyUnchanged

\* return hierarchy
ReturnRuleHierarchy ==
    /\ pc = "extractHierarchy"
    /\ currentPageNum > Len(document)
    /\ pc' = "createSemanticChunks"
    /\ UNCHANGED <<ruleHierarchy, currentPageNum, openRule>>
    /\ HierarchyUnchanged

NextHierarchy ==
    \/ ExtractHierarchyPage
    \/ ReturnRuleHierarchy

SpecHierarchy == InitHierarchy /\ [][NextHierarchy]_vars

SubrulesReturned == pc = "createSemanticChunks"

\* the subrule headers between the last rule header before place e and e
OpenSubrules(e) ==
    {b \in HeaderPlaces("subrule") :
        /\ Precedes(b, e)
        /\ Precedes(LastRuleHeaderBefore(e), b)}

\* C21: an exception marker is attached to the subrule opened most recently
\* before it under the current rule, and a subrule whose header only comes
\* after the marker never receives it.  The first half is stated for headers
\* that occur once in the document.
C21_ExceptionToOpenSubrule ==
    SubrulesReturned =>
        /\ \A r \in DOMAIN ruleHierarchy : \A k \in DOMAIN ruleHierarchy[r].Subrules :
           \A x \in DOMAIN ruleHierarchy[r].Subrules[k].Exceptions :
               \E e \in HeaderPlaces("exception") : \E b \in HeaderPlaces("subrule") :
                   /\ document[e[1]][e[2]].num = x
                   /\ document[b[1]][b[2]].num = k
                   /\ Precedes(b, e)
        /\ \A e \in HeaderPlaces("exception") :
               (/\ RuleHeadersBefore(e) # {}
                /\ OpenSubrules(e) # {}
                /\ \A kind \in {"rule", "subrule"} : \A b \in HeaderPlaces(kind) :
                       Cardinality(Occurrences(kind, document[b[1]][b[2]].num)) = 1) =>
                   LET q == LastRuleHeaderBefore(e)
                       b == CHOOSE c \in OpenSubrules(e) :
                                \A o \in OpenSubrules(e) : o = c \/ Precedes(o, c)
                       r == document[q[1]][q[2]].num
                       k == document[b[1]][b[2]].num
                   IN  /\ r \in DOMAIN ruleHierarchy
                       /\ k \in DOMAIN ruleHierarchy[r].Subrules
                       /\ document[e[1]][e[2]].num
                              \in DOMAIN ruleHierarchy[r].Subrules[k].Exceptions

\* C22: EmbedText makes its attempts one after another, MaxRetries + 1 at
\* most, sleeps k seconds before the k-th retry, ends at the first attempt
\* that succeeds, and fails only when every attempt has failed
C22_RetriesWithLinearBackoff ==
    \A i \in DOMAIN batch :
        /\ batch[i].attempts <= MaxRetries + 1
        /\ batch[i].slept = [k \in 1..Len(batch[i].slept) |-> k]
        /\ batch[i].attempts > 0 => Len(batch[i].slept) = batch[i].attempts - 1
        /\ batch[i].state = "requesting" => batch[i].attempts = batch[i].retries + 1
        /\ batch[i].state = "embedded" => batch[i].attempts = batch[i].retries + 1
        /\ batch[i].state = "failed" =>
              /\ batch[i].attempts = MaxRetries + 1
              /\ batch[i].retries = MaxRetries

\* one chunk failed after the last retry, another was embedded at its first
\* retry
C22_Witness ==
    \E i, j \in DOMAIN batch :
        /\ batch[i].state = "failed"
        /\ batch[i].slept = [k \in 1..MaxRetries |-> k]
        /\ batch[j].state = "embedded"
        /\ batch[j].slept = <<1>>

\* C23: with MaxConcurrent >= 1, the workers that hold a slot of the
\* semaphore, and so the requests in flight, are never more than
\* MaxConcurrent
C23_AtMostMaxConcurrent ==
    MaxConcurrent >= 1 =>
        /\ Cardinality({i \in DOMAIN batch : batch[i].slot}) <= MaxConcurrent
        /\ Cardinality({i \in DOMAIN batch : batch[i].state = "requesting"})
              <= MaxConcurrent

\* the semaphore is full while a chunk of the batch still waits to be started
C23_Witness ==
    /\ MaxConcurrent >= 2
    /\ Cardinality({i \in DOMAIN batch : batch[i].state = "requesting"}) = MaxConcurrent
    /\ nextChunk <= Len(batch)
    /\ pc = "EmbedBatchWithProgress"

\* a step that returns the batch finds every worker past its last write, and
\* on success every chunk embedded; a step after the return changes no
\* chunk and starts no attempt
C24_Step ==
    /\ batchResult' # Idle =>
          /\ \A i \in DOMAIN batch' : batch'[i].state \in {"embedded", "failed"}
          /\ batchResult'.err = <<>> =>
                /\ Len(batchResult'.chunks) = Len(batch')
                /\ \A i \in DOMAIN batch' : batch'[i].Embedding
    /\ BatchReturned =>
          \A i \in DOMAIN batch :
              /\ batch'[i].Embedding = batch[i].Embedding
              /\ batch'[i].state = batch[i].state
              /\ batch'[i].attempts = batch[i].attempts

\* C24: the batch returns only after every worker has finished: after the
\* return no worker writes to a chunk or reports progress, and a batch
\* returned as a success has every chunk embedded
C24_ReturnsAfterWorkers == [][C24_Step]_vars

\* a batch of MaxBatch chunks has returned as a success while a worker has
\* not yet given back its slot
C24_Witness ==
    /\ BatchReturned
    /\ batchResult.err = <<>>
    /\ Len(batch) = MaxBatch
    /\ \E i \in DOMAIN batch : batch[i].slot

\* the scheduler runs every goroutine that can take a step, and every
\* embedding request returns, with the embedding or with an error
FairEmbed ==
    /\ WF_vars(Launch)
    /\ WF_vars(ReturnBatch)
    /\ \A i \in 1..MaxBatch :
          /\ WF_vars(i \in DOMAIN batch /\ StartAttempt(i))
          /\ WF_vars(i \in DOMAIN batch /\ (AttemptSucceeds(i) \/ AttemptFails(i)))
          /\ WF_vars(i \in DOMAIN batch /\ WorkerDone(i))
          /\ WF_vars(i \in DOMAIN batch /\ Release(i))

SpecEmbedFair == InitEmbed /\ [][NextEmbed]_vars /\ FairEmbed

\* C25: for every batch and every value of max-concurrent, 0 included,
\* EmbedBatchWithProgress eventually returns
C25_BatchEventuallyReturns == <>BatchReturned

(***************************************************************************)
(* removeHeadersFooters on one page of whole lines.                        *)
(***************************************************************************)
MaxPageLines == 6

\* a plain line, a marker line, an empty line, a long line holding a marker
PageLinePool ==
    {<<"w">>, <<"Page">>, <<>>, <<"a sentence of fifty bytes", " ", "Page">>}

\* removeHeadersFooters called on a text of one page
InitHeaders ==
    /\ NoRegions
    /\ pc = "preprocessGolfRules"
    /\ \E n \in 1..MaxPageLines : \E ls \in [1..n -> PageLinePool] :
          pdfText = JoinWith(ls, "\n")
    /\ processedText = pdfText

NextHeaders == RemoveHeadersFooters

SpecHeaders == InitHeaders /\ [][NextHeaders]_vars

\* a line the function may remove: short, and holding a marker
Boilerplate(line) == LooksLike(line, HeaderMarkers \cup FooterMarkers)

NotBoilerplate(line) == ~Boilerplate(line)

HeadersRemoved == pc = "normalizeWhitespace"

\* C26: of a page that is kept, removeHeadersFooters removes only short lines
\* that hold a marker: the other lines are all in the output, in their order,
\* and a page without such a line is unchanged
C26_OnlyBoilerplateRemoved ==
    (HeadersRemoved /\ Count(pdfText, "\f") = 0 /\ KeptPage(pdfText)) =>
        LET lines == SplitOn(pdfText, "\n")
            cleaned == SplitOn(processedText, "\n")
        IN  /\ SelectSeq(cleaned, NotBoilerplate) = SelectSeq(lines, NotBoilerplate)
            /\ (\A i \in DOMAIN lines : NotBoilerplate(lines[i])) =>
                  processedText = pdfText

(***************************************************************************)
(* normalizeWhitespace on a text of words, spaces and line breaks.         *)
(***************************************************************************)
WhitespaceTokens == {"w", " ", "\n"}

\* normalizeWhitespace called with a text of its own
InitWhitespace ==
    /\ NoRegions
    /\ pc = "normalizeWhitespace"
    /\ \E n \in 0..MaxTextLen : pdfText \in [1..n -> WhitespaceTokens]
    /\ processedText = pdfText

NextWhitespace == NormalizeWhitespace

SpecWhitespace == InitWhitespace /\ [][NextWhitespace]_vars

\* the places where a paragraph ends and another follows: a word, then
\* whitespace holding two line breaks or more, then a word
ParagraphBreaks(t) ==
    {i \in 1..Len(t) :
        /\ t[i] \notin Whitespace
        /\ \E j \in (i + 1)..Len(t) :
              /\ t[j] \notin Whitespace
              /\ \A k \in (i + 1)..(j - 1) : t[k] \in Whitespace
              /\ Cardinality({k \in (i + 1)..(j - 1) : t[k] = "\n"}) >= 2}

WhitespaceNormalized == pc = "expandGolfAbbreviations"

\* C27: after normalizeWhitespace no two spaces follow each other, and two
\* paragraphs that a blank line separated are still separated by a paragraph
\* separator: the text has as many paragraphs as before
C27_ParagraphsKept ==
    WhitespaceNormalized =>
        /\ \A i \in 1..(Len(processedText) - 1) :
              ~(processedText[i] = " " /\ processedText[i + 1] = " ")
        /\ Cardinality(ParagraphBreaks(processedText))
              = Cardinality(ParagraphBreaks(pdfText))

(***************************************************************************)
(* The chunks of one split section, against the section they come from.    *)
(***************************************************************************)
IsPrefix(p, t) == Len(p) <= Len(t) /\ SubSeq(t, 1, Len(p)) = p

HasText(paragraph) == StrLen(paragraph) > 0

\* the paragraphs of a chunk that hold text
TextParagraphs(content) == SelectSeq(SplitParagraphs(content), HasText)

\* the paragraph the loop was at when it flushed the chunk before cs[j]: the
\* first one written to cs[j] after the overlap
FirstOwnParagraph(cs, j) ==
    LET paragraphs == SplitParagraphs(cs[j].Content)
    IN  IF HasText(getLastParagraph(cs[j - 1].Content)) /\ Len(paragraphs) >= 3
        THEN paragraphs[3] ELSE paragraphs[1]

CreatedChunks == pc = "append"

\* C28: in a split section a chunk that is not the last was flushed because
\* the next paragraph would have taken it over ChunkSize while it was longer
\* than MIN_CHUNK_SIZE; every chunk after the first begins with the whole
\* last paragraph of the chunk before it; the chunks of one section differ
\* in ID and Content only
C28_FlushAndOverlap ==
    CreatedChunks =>
        \A r \in DOMAIN ruleHierarchy : \A s \in DOMAIN ruleHierarchy[r].Sections :
            LET cs == SectionChunksOf(r, s)
            IN  \A j \in 2..Len(cs) :
                    /\ IsPrefix(getLastParagraph(cs[j - 1].Content), cs[j].Content)
                    /\ StrLen(cs[j - 1].Content) > MIN_CHUNK_SIZE
                    /\ StrLen(cs[j - 1].Content) + StrLen(FirstOwnParagraph(cs, j))
                          > ChunkSize
                    /\ [cs[j] EXCEPT !.ID = 0, !.Content = <<>>]
                          = [cs[1] EXCEPT !.ID = 0, !.Content = <<>>]

\* a section was split into three chunks, each overlap paragraph holding
\* text
C28_Witness ==
    /\ CreatedChunks
    /\ \E r \in DOMAIN ruleHierarchy : \E s \in DOMAIN ruleHierarchy[r].Sections :
          LET cs == SectionChunksOf(r, s)
          IN  /\ Len(cs) = 3
              /\ \A j \in 2..3 : HasText(getLastParagraph(cs[j - 1].Content))

RECURSIVE WithoutOverlap(_, _)
\* the paragraphs with text of the chunks cs[j], cs[j+1], ..., the overlap
\* paragraph at the head of a chunk left out
WithoutOverlap(cs, j) ==
    IF j > Len(cs) THEN <<>>
    ELSE LET own == TextParagraphs(cs[j].Content)
         IN  (IF j > 1 /\ HasText(getLastParagraph(cs[j - 1].Content))
              THEN Tail(own) ELSE own)
             \o WithoutOverlap(cs, j + 1)

\* C29: the chunks of a section hold every paragraph of its content, in the
\* order of the content, and nothing twice but the overlap paragraph at the
\* head of a chunk
C29_NoTextLost ==
    Built =>
        \A r \in DOMAIN ruleHierarchy : \A s \in DOMAIN ruleHierarchy[r].Sections :
            WithoutOverlap(SectionChunksOf(r, s), 1)
                = TextParagraphs(ruleHierarchy[r].Sections[s].Content)

\* a section of three paragraphs with text was split into two chunks or more
C29_Witness ==
    /\ Built
    /\ \E r \in DOMAIN ruleHierarchy : \E s \in DOMAIN ruleHierarchy[r].Sections :
          /\ Len(SectionChunksOf(r, s)) >= 2
          /\ Len(TextParagraphs(ruleHierarchy[r].Sections[s].Content)) = MaxParas

----------------------------------------------------------------------------
(* The domain terms of a question.                                          *)

\* the question holds the vocabulary key in some letter case
HoldsKey(q, key) == \E i \in DOMAIN q : ToLower(q[i]) = ToLower(key)

\* identifyGolfTerms has returned
TermsIdentified == pc # "processQuery"

\* C30: identifyGolfTerms matches every key of its vocabulary table without
\* regard to letter case: a question holding a key in any case yields the
\* term the key maps to, no term is named twice in the returned list, and a
\* question holding no key yields the empty list.
C30_KeysMatchInAnyCase ==
    TermsIdentified =>
        /\ \A key \in DOMAIN patterns :
              HoldsKey(query.text, key) => contains(search.golfTerms, patterns[key])
        /\ \A i, j \in DOMAIN search.golfTerms :
              search.golfTerms[i] = search.golfTerms[j] => i = j
        /\ (\A key \in DOMAIN patterns : ~HoldsKey(query.text, key))
              => search.golfTerms = <<>>

=============================================================================
